---- MODULE Spec2Model ----
(***************************************************************************)
(* mindtodo: the canvas graph state of one mounted BrainMap, the two sync  *)
(* controllers found in the sources (the load/save effects written inline  *)
(* in BrainMap.tsx and the useBrainMapStorage hook), the localStorage      *)
(* entries they read and write, and the pointer gesture flags.             *)
(*                                                                         *)
(* React is modelled as follows.  An event handler runs to completion and  *)
(* its state updates are committed by one render (one action).  Every      *)
(* commit leaves an effect pass pending; the pass runs the effects whose   *)
(* dependencies changed, in declaration order, against the values of the   *)
(* render that scheduled them, and commits the updates they queued (one    *)
(* action).  React flushes a pending effect pass before it renders the     *)
(* next update, so handlers are enabled only when no pass is pending.      *)
(***************************************************************************)
EXTENDS Integers, Sequences, FiniteSets, TLC

\* ------------------------------------------------------------------ bounds
MaxTime == 4
MaxNodes == 3
MaxOps == 2
MaxButtons == 2
MaxEvents == 4

\* --------------------------------------------------------------- constants
InnerWidth == 1024
InnerHeight == 768
MIN_DRAG_DISTANCE == 50

MapIds == {"A", "B"}

\* titles are sequences of characters
MyTasks == <<"M", "y", " ", "T", "a", "s", "k", "s">>
Work == <<"W", "o", "r", "k">>
Personal == <<"P", "e", "r", "s", "o", "n", "a", "l">>
Untitled == <<"U", "n", "t", "i", "t", "l", "e", "d">>
NewNodeTitle == <<"N", "e", "w", " ", "N", "o", "d", "e">>

ROOT_TITLES == {MyTasks, Work, Personal}
DEFAULT_STATUS == "pending"
Statuses == {"pending", "success", "failed"}

\* the id 'root' of the oldest stored maps; other ids are Date.now() stamps
RootLiteralId == 0

\* ------------------------------------------------------------ JS numbers
\* a number is a fraction n/d in lowest terms with d >= 0; d = 0 stands for
\* the values a division by zero gives: 1/0 Infinity, -1/0 -Infinity, 0/0 NaN
Abs(i) == IF i < 0 THEN -i ELSE i

RECURSIVE Gcd(_, _)
Gcd(a, b) == IF b = 0 THEN a ELSE Gcd(b, a % b)

Sign(i) == IF i > 0 THEN 1 ELSE IF i < 0 THEN -1 ELSE 0

Norm(n, d) ==
  IF d = 0 THEN [n |-> Sign(n), d |-> 0]
  ELSE LET g == Gcd(Abs(n), Abs(d))
       IN [n |-> (Sign(d) * n) \div g, d |-> Abs(d) \div g]

Q(i) == [n |-> i, d |-> 1]
NaN == [n |-> 0, d |-> 0]
IsNaN(a) == a.n = 0 /\ a.d = 0

\* sums and products cancel common factors before they multiply
QAdd(a, b) ==
  IF a.d = 0 \/ b.d = 0 THEN Norm(a.n * b.d + b.n * a.d, a.d * b.d)
  ELSE LET g == Gcd(a.d, b.d)
       IN Norm(a.n * (b.d \div g) + b.n * (a.d \div g), (a.d \div g) * b.d)
QNeg(a) == [n |-> -a.n, d |-> a.d]
QSub(a, b) == IF IsNaN(b) THEN NaN ELSE QAdd(a, QNeg(b))
QMul(a, b) ==
  IF a.d = 0 \/ b.d = 0 \/ a.n = 0 \/ b.n = 0 THEN Norm(a.n * b.n, a.d * b.d)
  ELSE LET g1 == Gcd(Abs(a.n), b.d)
           g2 == Gcd(Abs(b.n), a.d)
       IN Norm((a.n \div g1) * (b.n \div g2), (a.d \div g2) * (b.d \div g1))
QInv(a) == Norm(a.d, a.n)
QDiv(a, b) == QMul(a, QInv(b))

\* a < b; false when either is NaN
QLess(a, b) ==
  IF a.d = 0 /\ b.d = 0 THEN (~IsNaN(a) /\ ~IsNaN(b) /\ a.n < b.n)
  ELSE a.n * b.d < b.n * a.d

\* Math.min and Math.max: NaN when either argument is NaN
QMin(a, b) == IF IsNaN(a) \/ IsNaN(b) THEN NaN ELSE IF QLess(b, a) THEN b ELSE a
QMax(a, b) == IF IsNaN(a) \/ IsNaN(b) THEN NaN ELSE IF QLess(a, b) THEN b ELSE a

\* a point with integer coordinates, and the arithmetic of points
P(x, y) == [x |-> Q(x), y |-> Q(y)]
PAdd(a, b) == [x |-> QAdd(a.x, b.x), y |-> QAdd(a.y, b.y)]
PSub(a, b) == [x |-> QSub(a.x, b.x), y |-> QSub(a.y, b.y)]
PDiv(a, z) == [x |-> QDiv(a.x, z), y |-> QDiv(a.y, z)]
PScale(a, z) == [x |-> QMul(a.x, z), y |-> QMul(a.y, z)]

\* ----------------------------------------------------------- pure helpers
RECURSIVE TrimStart(_)
TrimStart(s) ==
  IF s # <<>> /\ Head(s) = " " THEN TrimStart(Tail(s)) ELSE s

RECURSIVE TrimEnd(_)
TrimEnd(s) ==
  IF s # <<>> /\ s[Len(s)] = " " THEN TrimEnd(SubSeq(s, 1, Len(s) - 1)) ELSE s

\* String.prototype.trim
Trim(s) == TrimEnd(TrimStart(s))

\* a stored node record as JSON.parse returns it: every field may be missing
\* (has* = FALSE) or carry a value of the wrong kind (status "bogus").
\* isRoot is "true", "false" or "none" (not a boolean / missing).
RawNode(hasId, id, hasTitle, title, hasPos, pos, status, isRoot, hasTodos, todos) ==
  [hasId |-> hasId, id |-> id, hasTitle |-> hasTitle, title |-> title,
   hasPos |-> hasPos, pos |-> pos, status |-> status, isRoot |-> isRoot,
   hasTodos |-> hasTodos, todos |-> todos]

\* JSON.stringify of an in-memory node followed by JSON.parse
ToRaw(n) ==
  RawNode(TRUE, n.id, TRUE, n.title, TRUE, n.pos, n.status,
          IF n.isRoot THEN "true" ELSE "false", FALSE, <<>>)

Stringify(ns) == [i \in DOMAIN ns |-> ToRaw(ns[i])]

\* BrainMap.tsx isRootNode on an in-memory node (isRoot is always a boolean
\* once a node went through normalizeNode or was created by the component)
isRootNode(n) == n.isRoot

\* a fault: the length of the list is not looked at, and every item of an
\* empty list is completed
deriveStatusNoLengthCheck(hasTodos, todos) ==
  IF ~hasTodos
  THEN DEFAULT_STATUS
  ELSE IF \A i \in DOMAIN todos : todos[i] THEN "success" ELSE DEFAULT_STATUS

deriveStatusFromLegacyTodos(hasTodos, todos) ==
  IF ~hasTodos \/ Len(todos) = 0
  THEN DEFAULT_STATUS
  ELSE IF \A i \in DOMAIN todos : todos[i] THEN "success" ELSE DEFAULT_STATUS

normalizeNode(raw, clock) ==
  [id |-> IF raw.hasId THEN raw.id ELSE clock,
   title |-> IF raw.hasTitle THEN raw.title ELSE Untitled,
   pos |-> IF raw.hasPos THEN raw.pos ELSE P(0, 0),
   status |-> IF raw.status \in Statuses
              THEN raw.status
              ELSE deriveStatusFromLegacyTodos(raw.hasTodos, raw.todos),
   isRoot |-> IF raw.isRoot \in {"true", "false"}
              THEN raw.isRoot = "true"
              ELSE (raw.hasId /\ raw.id = RootLiteralId)
                   \/ (raw.hasTitle /\ raw.title \in ROOT_TITLES)]

\* a fault: every node is marked root instead of the first one only
PromoteAll(normalized) ==
  [i \in DOMAIN normalized |-> [normalized[i] EXCEPT !.isRoot = TRUE]]

PromoteFirst(normalized) ==
  [i \in DOMAIN normalized |->
     IF i = 1 THEN [normalized[i] EXCEPT !.isRoot = TRUE] ELSE normalized[i]]

normalizeNodes(rawNodes, clock) ==
  LET normalized == [i \in DOMAIN rawNodes |-> normalizeNode(rawNodes[i], clock)]
  IN IF ~(\E i \in DOMAIN normalized : normalized[i].isRoot)
     THEN IF Len(normalized) > 0 THEN PromoteFirst(normalized) ELSE normalized
     ELSE normalized

\* a fault: the map name is used as it is, without trim()
getRootTitleUntrimmed(name) ==
  IF Len(name) > 0 THEN name ELSE MyTasks

\* getRootTitle without an override title
getRootTitle(name) ==
  IF Len(Trim(name)) > 0 THEN Trim(name) ELSE MyTasks

CenterPos == P(InnerWidth \div 2 - 60, InnerHeight \div 2 - 60)

\* a fault: the new node is not flagged as the root
NewPlainNode(name, clock) ==
  [id |-> clock, title |-> getRootTitle(name), pos |-> CenterPos,
   status |-> DEFAULT_STATUS, isRoot |-> FALSE]

\* the node built by createRootNode and by resetBrainMap
NewRootNode(name, clock) ==
  [id |-> clock, title |-> getRootTitle(name), pos |-> CenterPos,
   status |-> DEFAULT_STATUS, isRoot |-> TRUE]


\* ------------------------------------------------------------------- state
VARIABLES
  controller,      \* "inline": BrainMap.tsx effects; "hook": useBrainMapStorage
  store,           \* localStorage: per map id the nodes and connections entry
  mapName,         \* App's map list: the name of each map
  mapId,           \* the mapId prop of the mounted BrainMap
  nodes,           \* useState nodes
  connections,     \* useState connections
  hydrated,        \* useState hydrated of useBrainMapStorage
  pending,         \* effects of the last commit that have not run yet
  queue,           \* state updates queued by the effects of the running pass
  now,             \* Date.now()
  ops,             \* number of user operations so far
  wrote,           \* map ids whose entries the last step wrote
  hydratedKey,     \* map id whose hydration this instance has committed
  loadSaw,         \* what the load effect of the current keys read, and when
  fresh,           \* nodes and connections are as the last hydration left them
  selectedNode, showTodoDialog, connectingMode,
  isPanning, isDragging, dragNode, wasDragging, dragTimer,
  placing,         \* ids of the nodes whose isDraggingNewNode is true
  dragStartPositionRef, \* of each such node: where the pointer went down
  requests,        \* creation callbacks called by the nodes in the last step
  hit,             \* what the pointer-down or click of the last step landed on
  wheel,           \* the wheel event of the last step
  editingNodeId,   \* id of the node whose title is being edited
  initialClickPos, lastPanPoint,
  zoom,            \* zoom factor
  pan,
  inside,          \* the pointer is over the canvas element
  buttonsDown,     \* pointer buttons currently held
  touch,           \* refs and state of the touch hooks
  dragLog,         \* history: the pointer events of the last node drag
  panLog,          \* history: the pointer events of the last pan gesture
  rendered,        \* the render in progress: status summary and connection lines
  app              \* App.tsx: map list, isInitialized, the stored map list

passVars == <<queue, loadSaw>>
syncVars == <<controller, store, mapName, mapId, nodes, connections, hydrated,
              pending, now, ops, wrote, hydratedKey, passVars, fresh>>
dialogVars == <<selectedNode, showTodoDialog, connectingMode>>
flagVars == <<isPanning, isDragging, dragNode, wasDragging, dragTimer,
              placing, dragStartPositionRef, editingNodeId, initialClickPos,
              lastPanPoint>>
viewVars == <<zoom, pan>>
pointerVars == <<inside, buttonsDown>>
gestureVars == <<flagVars, viewVars, pointerVars>>
vars == <<syncVars, dialogVars, gestureVars, touch, dragLog, panLog, requests, hit, wheel,
          rendered, app>>

NoNode == -1
NoHit == "none"
NoWheel == [at |-> P(0, 0), dy |-> 0, on |-> FALSE]
ZeroSummary == [success |-> 0, failed |-> 0, pending |-> 0, total |-> 0]
\* no node has been measured
NoSize == [asked |-> FALSE, root |-> FALSE, title |-> <<>>, count |-> 0,
           editing |-> FALSE, width |-> 0, height |-> 0]
\* no render is being followed
NoRender == [phase |-> "idle", start |-> NoNode, stack |-> <<>>, visited |-> {},
             result |-> ZeroSummary, lines |-> <<>>, steps |-> 0, size |-> NoSize]
NoDrag == [id |-> NoNode, pos |-> P(0, 0)]
NoMap == "none"

Absent == [kind |-> "absent", val |-> <<>>]
Corrupt == [kind |-> "corrupt", val |-> <<>>]
Val(v) == [kind |-> "value", val |-> v]

\* App as constructed: useState maps [], isInitialized false; nothing stored
\* under MAPS_META_KEY; no effect waiting. used, deleted and did are history:
\* the ids given to maps so far, the ids whose deletion was confirmed, and
\* what the last step of App did
NoApp == [maps |-> <<>>, isInitialized |-> FALSE, meta |-> Absent, pending |-> <<>>,
          setMaps |-> FALSE, parsed |-> <<>>, used |-> {}, deleted |-> {},
          did |-> "none", before |-> Absent]

Conn(s, t) == [id |-> <<s, t>>, sourceId |-> s, targetId |-> t]

NodeIds == {nodes[i].id : i \in DOMAIN nodes}
NodeWithId(id) == nodes[CHOOSE i \in DOMAIN nodes : nodes[i].id = id]
RootCount(ns) == Cardinality({i \in DOMAIN ns : ns[i].isRoot})

\* ------------------------------------------------------- stored scenarios

\* written by the current version: one flagged root and one child
GoodNodes ==
  << RawNode(TRUE, 1, TRUE, <<"r">>, TRUE, P(452, 324), "pending", "true", FALSE, <<>>),
     RawNode(TRUE, 2, TRUE, <<"c">>, TRUE, P(600, 324), "success", "false", FALSE, <<>>) >>

\* legacy records, no isRoot flag, no root id, no root title
LegacyNoRoot ==
  << RawNode(TRUE, 1, TRUE, <<"p">>, TRUE, P(10, 10), "none", "none", TRUE, <<TRUE, TRUE>>),
     RawNode(TRUE, 2, FALSE, <<>>, FALSE, P(0, 0), "bogus", "none", TRUE, <<TRUE, FALSE>>) >>

\* legacy records whose id and title both mark a root
LegacyTwoRoots ==
  << RawNode(TRUE, RootLiteralId, TRUE, MyTasks, TRUE, P(452, 324), "none", "none", TRUE, <<>>),
     RawNode(TRUE, 2, TRUE, Work, TRUE, P(600, 324), "none", "none", FALSE, <<>>) >>

OtherNodes ==
  << RawNode(TRUE, 1, TRUE, <<"o">>, TRUE, P(452, 324), "pending", "true", FALSE, <<>>) >>

\* a root and two children that addNode created in the same millisecond, 2:
\* both have the id Date.now().toString() gave them
TwinNodes ==
  << RawNode(TRUE, 1, TRUE, <<"r">>, TRUE, P(452, 324), "pending", "true", FALSE, <<>>),
     RawNode(TRUE, 2, TRUE, <<"c">>, TRUE, P(600, 324), "pending", "false", FALSE, <<>>),
     RawNode(TRUE, 2, TRUE, <<"d">>, TRUE, P(452, 500), "pending", "false", FALSE, <<>>) >>

NodeEntries == {Absent, Corrupt, Val(<<>>), Val(GoodNodes), Val(LegacyNoRoot),
                Val(LegacyTwoRoots)}
ConnEntries == {Absent, Corrupt, Val(<<>>), Val(<<Conn(1, 2)>>)}
MapNames == {<<"m">>, <<" ", "m", " ">>, <<" ">>}

\* the entries of map "A" when the application starts
StoreScenarios ==
  {[nodes |-> Val(GoodNodes), conns |-> c] : c \in ConnEntries}
  \cup {[nodes |-> n, conns |-> c] :
          n \in NodeEntries \ {Val(GoodNodes)}, c \in {Absent, Val(<<Conn(1, 2)>>)}}

\* a fault: keys that do not depend on the map id (brainmap-nodes and
\* brainmap-connections, as the oldest version of the component had them)
StorageKeyUnscoped(m) == "A"

\* the storage entry a map id is keyed to: brainmap-${mapId}-nodes and
\* brainmap-${mapId}-connections
StorageKey(m) == m

\* a fault: the save effect declared before the load effect
EffectOrderSaveFirst == <<"save", "load">>

\* declaration order of the load and the save effect
EffectOrder == <<"load", "save">>

\* effects that run after the first render and after a change of mapId; the
\* hook first runs the effect that resets hydrated
MountEffects ==
  (IF controller = "hook" THEN <<"reset">> ELSE <<>>) \o EffectOrder \o <<"commit">>

\* effects that run after a commit that changed nodes, connections or hydrated
StateEffects == <<"save", "commit">>

NoQueue == [setNodes |-> FALSE, nodes |-> <<>>, setConns |-> FALSE, conns |-> <<>>,
            setHyd |-> FALSE, hyd |-> FALSE]

\* no load effect has run since the storage keys were last set
NoLoad == [key |-> NoMap, nodes |-> "none", conns |-> "none", raw |-> <<>>, at |-> 0]

\* the refs of usePinchZoom, useTouchPan and useTouchHandlers as created
NoTouch ==
  [active |-> FALSE, startTime |-> 0, hasStart |-> FALSE, startPos |-> P(0, 0),
   pinchDist |-> Q(0), pinchZoom |-> Q(1),
   panning |-> FALSE, hasLast |-> FALSE, lastPoint |-> P(0, 0),
   \* history: the last release and how it was classified
   release |-> [kind |-> "none", t0 |-> 0, p0 |-> P(0, 0), t1 |-> 0, p1 |-> P(0, 0)],
   t0 |-> 0, p0 |-> P(0, 0),
   \* history: the touches and the zoom at the last two-touch touchstart, and
   \* the last call of onZoom with the touches of its move
   began |-> [on |-> FALSE, a |-> P(0, 0), b |-> P(0, 0), zoom |-> Q(1)],
   report |-> [on |-> FALSE, a |-> P(0, 0), b |-> P(0, 0), zoom |-> Q(1),
               center |-> P(0, 0)]]

\* -------------------------------------------------------------------- Init
\* no node has been dragged yet
NoLog == [id |-> NoNode, idx |-> 0, origin |-> P(0, 0), start |-> <<>>,
          sum |-> P(0, 0), last |-> P(0, 0), at |-> 0]

\* the view has not been panned yet
NoPan == [active |-> FALSE, origin |-> P(0, 0), sum |-> P(0, 0),
          mouse |-> P(0, 0), finger |-> P(0, 0)]

GestureIdle ==
  /\ isPanning = FALSE /\ isDragging = FALSE /\ dragNode = NoDrag
  /\ wasDragging = FALSE /\ dragTimer = FALSE /\ placing = {}
  /\ dragStartPositionRef = <<>>
  /\ editingNodeId = NoNode
  /\ initialClickPos = P(0, 0) /\ lastPanPoint = P(0, 0)
  /\ zoom = Q(1) /\ pan = P(0, 0)
  /\ inside = TRUE /\ buttonsDown = 0
  /\ touch = NoTouch
  /\ dragLog = NoLog /\ panLog = NoPan

\* a BrainMap for map "A" has just been rendered for the first time
Init ==
  /\ controller \in {"inline", "hook"}
  /\ \E a \in StoreScenarios, nb \in {Absent, Val(OtherNodes)} :
       store = [m \in MapIds |-> IF m = "A" THEN a ELSE [nodes |-> nb, conns |-> Absent]]
  /\ \E nm \in MapNames : mapName = [m \in MapIds |-> IF m = "A" THEN nm ELSE <<"b">>]
  /\ mapId = "A"
  /\ nodes = <<>> /\ connections = <<>> /\ hydrated = FALSE
  /\ pending = MountEffects
  /\ queue = NoQueue /\ loadSaw = NoLoad /\ fresh = FALSE
  /\ now = 3 /\ ops = 0 /\ wrote = {} /\ wheel = NoWheel /\ rendered = NoRender /\ app = NoApp /\ requests = <<>> /\ hit = NoHit /\ hydratedKey = NoMap
  /\ selectedNode = NoNode /\ showTodoDialog = FALSE /\ connectingMode = NoNode
  /\ GestureIdle

\* ----------------------------------------------------------- sync effects
\* the nodes the load effect passes to setNodes for the entry saved
LoadedNodes(saved, name, clock) ==
  IF saved.kind = "value"
  THEN LET normalized == normalizeNodes(saved.val, clock)
       IN IF Len(normalized) > 0 THEN normalized ELSE <<NewRootNode(name, clock)>>
  ELSE <<NewRootNode(name, clock)>>

\* the connections after the load effect: setConnections is called only when
\* the entry exists and parses
LoadedConnections(saved, current) ==
  IF saved.kind = "value" THEN saved.val ELSE current

\* onRootTitleChange(normalizedRootTitle) of the load effect, applied by
\* App.handleRootTitleChange to the selected map's name
NameAfterLoad(saved, name, clock) ==
  IF saved.kind = "value" /\ Len(normalizeNodes(saved.val, clock)) > 0
  THEN LET normalized == normalizeNodes(saved.val, clock)
           r == CHOOSE i \in DOMAIN normalized :
                  /\ normalized[i].isRoot
                  /\ \A j \in DOMAIN normalized : normalized[j].isRoot => i <= j
           rootTitle == Trim(normalized[r].title)
       IN IF Len(rootTitle) > 0 /\ (Len(Trim(name)) = 0 \/ rootTitle # Trim(name))
          THEN rootTitle ELSE name
  ELSE name

\* save effect of useBrainMapStorage
HookSave(st, m, hyd, ns, cs) ==
  IF ~hyd THEN st
  ELSE [st EXCEPT ![m] = [nodes |-> IF Len(ns) > 0 THEN Val(Stringify(ns)) ELSE @.nodes,
                          conns |-> Val(cs)]]

\* save effect of BrainMap.tsx
InlineSave(st, m, ns, cs) ==
  [st EXCEPT ![m] = [nodes |-> IF Len(ns) > 0 THEN Val(Stringify(ns)) ELSE @.nodes,
                     conns |-> IF Len(cs) > 0 THEN Val(cs) ELSE @.conns]]

SaveEffect(st, m, hyd, ns, cs) ==
  IF controller = "hook" THEN HookSave(st, m, hyd, ns, cs) ELSE InlineSave(st, m, ns, cs)

\* does the save effect call localStorage.setItem at all
SaveWrites(hyd, ns, cs) ==
  IF controller = "hook" THEN hyd ELSE Len(ns) > 0 \/ Len(cs) > 0

\* what a load effect finds in an entry
NodesKind(entry) ==
  IF entry.kind # "value" THEN entry.kind
  ELSE IF Len(entry.val) = 0 THEN "empty" ELSE "value"

\* useBrainMapStorage: setHydrated(false) when the keys change
ResetEffect ==
  /\ pending # <<>> /\ Head(pending) = "reset"
  /\ queue' = [queue EXCEPT !.setHyd = TRUE, !.hyd = FALSE]
  /\ pending' = Tail(pending)
  /\ wrote' = {} /\ wheel' = NoWheel /\ rendered' = NoRender /\ app' = app /\ requests' = <<>> /\ hit' = NoHit
  /\ UNCHANGED <<controller, touch, dragLog, panLog, store, mapName, mapId, nodes, connections, hydrated,
                 now, ops, hydratedKey, loadSaw, fresh, dialogVars, gestureVars>>

\* the load effect: reads both entries of the current map id and queues the
\* state updates
LoadEffect ==
  /\ pending # <<>> /\ Head(pending) = "load"
  /\ LET saved == store[StorageKey(mapId)]
     IN /\ queue' = [setNodes |-> TRUE,
                     nodes |-> LoadedNodes(saved.nodes, mapName[mapId], now),
                     setConns |-> saved.conns.kind = "value",
                     conns |-> LoadedConnections(saved.conns, <<>>),
                     setHyd |-> controller = "hook" \/ queue.setHyd,
                     hyd |-> controller = "hook"]
        /\ mapName' = [mapName EXCEPT ![mapId] = NameAfterLoad(saved.nodes, @, now)]
        /\ loadSaw' = [key |-> StorageKey(mapId), nodes |-> NodesKind(saved.nodes),
                       conns |-> saved.conns.kind, raw |-> saved.nodes.val, at |-> now]
  /\ pending' = Tail(pending)
  /\ wrote' = {} /\ wheel' = NoWheel /\ rendered' = NoRender /\ app' = app /\ requests' = <<>> /\ hit' = NoHit
  /\ UNCHANGED <<controller, touch, dragLog, panLog, store, mapId, nodes, connections, hydrated, now, ops,
                 hydratedKey, fresh, dialogVars, gestureVars>>

\* the save effect, run with the nodes, connections and hydrated of the render
\* that scheduled it
SaveStep ==
  /\ pending # <<>> /\ Head(pending) = "save"
  /\ store' = SaveEffect(store, StorageKey(mapId), hydrated, nodes, connections)
  /\ wrote' = IF SaveWrites(hydrated, nodes, connections) THEN {StorageKey(mapId)} ELSE {}
  /\ wheel' = NoWheel /\ rendered' = NoRender /\ app' = app
  /\ requests' = <<>> /\ hit' = NoHit
  /\ pending' = Tail(pending)
  /\ UNCHANGED <<controller, touch, dragLog, panLog, mapName, mapId, nodes, connections, hydrated, now, ops,
                 hydratedKey, passVars, fresh, dialogVars, gestureVars>>

\* React renders with the updates the effects queued; a render that changed
\* nodes, connections or hydrated schedules the save effect again
Commit ==
  /\ pending # <<>> /\ Head(pending) = "commit"
  /\ nodes' = IF queue.setNodes THEN queue.nodes ELSE nodes
  /\ connections' = IF queue.setConns THEN queue.conns ELSE connections
  /\ hydrated' = IF queue.setHyd THEN queue.hyd ELSE hydrated
  /\ hydratedKey' = IF queue.setNodes THEN mapId ELSE hydratedKey
  /\ fresh' = IF queue.setNodes THEN TRUE ELSE fresh
  /\ pending' = IF queue.setNodes \/ queue.setConns
                   \/ (queue.setHyd /\ queue.hyd # hydrated)
                THEN StateEffects ELSE <<>>
  /\ queue' = NoQueue
  /\ wrote' = {} /\ wheel' = NoWheel /\ rendered' = NoRender /\ app' = app /\ requests' = <<>> /\ hit' = NoHit
  /\ UNCHANGED <<controller, touch, dragLog, panLog, store, mapName, mapId, now, ops, loadSaw, dialogVars,
                 gestureVars>>

\* ---------------------------------------------------------- map switching
\* state of a BrainMap instance that has just been created
FreshInstance ==
  /\ nodes' = <<>> /\ connections' = <<>> /\ hydrated' = FALSE
  /\ selectedNode' = NoNode /\ showTodoDialog' = FALSE /\ connectingMode' = NoNode
  /\ isPanning' = FALSE /\ isDragging' = FALSE /\ dragNode' = NoDrag
  /\ wasDragging' = FALSE /\ dragTimer' = FALSE /\ placing' = {}
  /\ dragStartPositionRef' = <<>>
  /\ editingNodeId' = NoNode
  /\ initialClickPos' = P(0, 0) /\ lastPanPoint' = P(0, 0)
  /\ zoom' = Q(1) /\ pan' = P(0, 0)
  /\ touch' = NoTouch /\ dragLog' = NoLog /\ panLog' = NoPan

\* App: selectMap(m); BrainMap is keyed by the map id, so the old instance is
\* unmounted and a new one mounted
SwitchMapRemount(m) ==
  /\ pending = <<>> /\ ops < MaxOps
  /\ m # mapId
  /\ mapId' = m
  /\ FreshInstance
  /\ pending' = MountEffects /\ fresh' = FALSE
  /\ hydratedKey' = NoMap
  /\ wrote' = {} /\ wheel' = NoWheel /\ rendered' = NoRender /\ app' = app /\ requests' = <<>> /\ hit' = NoHit
  /\ ops' = ops + 1
  /\ loadSaw' = NoLoad
  /\ UNCHANGED <<queue, controller, store, mapName, now, pointerVars>>

\* the mounted BrainMap is rendered again with another mapId: the storage
\* keys change, the state of the instance stays
RerenderMapId(m) ==
  /\ pending = <<>> /\ ops < MaxOps
  /\ m # mapId
  /\ mapId' = m
  /\ pending' = MountEffects /\ fresh' = FALSE
  /\ hydratedKey' = NoMap
  /\ wrote' = {} /\ wheel' = NoWheel /\ rendered' = NoRender /\ app' = app /\ requests' = <<>> /\ hit' = NoHit
  /\ ops' = ops + 1
  /\ loadSaw' = NoLoad
  /\ UNCHANGED <<queue, controller, touch, dragLog, panLog, store, mapName, nodes, connections, hydrated, now,
                 dialogVars, gestureVars>>

\* time passes
Tick ==
  /\ now < MaxTime
  /\ now' = now + 1
  /\ wrote' = {} /\ wheel' = NoWheel /\ rendered' = NoRender /\ app' = app /\ requests' = <<>> /\ hit' = NoHit
  /\ UNCHANGED <<passVars, controller, touch, dragLog, panLog, store, mapName, mapId, nodes, connections, hydrated,
                 pending, fresh, ops, hydratedKey, dialogVars, gestureVars>>

\* ---------------------------------------------------------- graph handlers
\* Math.random() offset and angle of addNode, as a displacement
AddOffsets == {P(100, 0), P(-177, 177)}
TitleInputs == {<<" ", "t">>, <<" ">>}

\* App.handleRootTitleChange applied to the selected map's name
RenamedMap(name, title) ==
  IF Len(Trim(title)) > 0 THEN Trim(title) ELSE name

addNode(parentId) ==
  /\ pending = <<>> /\ ops < MaxOps
  /\ Len(nodes) < MaxNodes
  /\ parentId \in NodeIds
  /\ \E d \in AddOffsets :
       LET parentNode == NodeWithId(parentId)
           newNode == [id |-> now, title |-> NewNodeTitle,
                       pos |-> PAdd(parentNode.pos, d),
                       status |-> DEFAULT_STATUS, isRoot |-> FALSE]
       IN /\ nodes' = Append(nodes, newNode)
          /\ connections' = Append(connections, Conn(parentNode.id, newNode.id))
          /\ selectedNode' = newNode.id
  /\ showTodoDialog' = TRUE
  /\ pending' = StateEffects /\ fresh' = FALSE
  /\ wrote' = {} /\ wheel' = NoWheel /\ rendered' = NoRender /\ app' = app /\ requests' = <<>> /\ hit' = NoHit
  /\ ops' = ops + 1
  /\ UNCHANGED <<passVars, controller, touch, dragLog, panLog, store, mapName, mapId, hydrated, now, hydratedKey,
                 connectingMode, gestureVars>>

TitledNode(node, nodeId, newTitle, name) ==
  IF node.id # nodeId THEN node
  ELSE IF node.isRoot
       THEN [node EXCEPT !.title = IF Len(Trim(newTitle)) > 0 THEN Trim(newTitle)
                                   ELSE getRootTitle(name),
                         !.isRoot = TRUE]
       ELSE [node EXCEPT !.title = IF Len(Trim(newTitle)) > 0 THEN Trim(newTitle)
                                   ELSE Untitled]

\* the updater passed to setNodes sets rootRenamed; React may run it inside
\* setNodes or only at the next render, so the onRootTitleChange call that
\* follows may or may not see it
updateNodeTitle(nodeId, newTitle) ==
  /\ pending = <<>> /\ ops < MaxOps
  /\ nodeId \in NodeIds
  /\ LET name == mapName[mapId]
         Upd(node) == TitledNode(node, nodeId, newTitle, name)
         renamedRoot == \E i \in DOMAIN nodes : nodes[i].id = nodeId /\ nodes[i].isRoot
         rootTitle == IF Len(Trim(newTitle)) > 0 THEN Trim(newTitle) ELSE getRootTitle(name)
     IN /\ nodes' = [i \in DOMAIN nodes |-> Upd(nodes[i])]
        /\ \/ UNCHANGED mapName
           \/ /\ renamedRoot
              /\ mapName' = [mapName EXCEPT ![mapId] = RenamedMap(@, rootTitle)]
  /\ pending' = StateEffects /\ fresh' = FALSE
  /\ wrote' = {} /\ wheel' = NoWheel /\ rendered' = NoRender /\ app' = app /\ requests' = <<>> /\ hit' = NoHit
  /\ ops' = ops + 1
  /\ UNCHANGED <<passVars, controller, touch, dragLog, panLog, store, mapId, connections, hydrated, now, hydratedKey,
                 dialogVars, gestureVars>>

\* the status buttons exist for non-root nodes only
updateNodeStatus(nodeId, status) ==
  /\ pending = <<>> /\ ops < MaxOps
  /\ \E i \in DOMAIN nodes : nodes[i].id = nodeId /\ ~isRootNode(nodes[i])
  /\ LET Upd(node) == IF node.id = nodeId THEN [node EXCEPT !.status = status] ELSE node
     IN nodes' = [i \in DOMAIN nodes |-> Upd(nodes[i])]
  /\ pending' = StateEffects /\ fresh' = FALSE
  /\ wrote' = {} /\ wheel' = NoWheel /\ rendered' = NoRender /\ app' = app /\ requests' = <<>> /\ hit' = NoHit
  /\ ops' = ops + 1
  /\ UNCHANGED <<passVars, controller, touch, dragLog, panLog, store, mapName, mapId, connections, hydrated, now,
                 hydratedKey, dialogVars, gestureVars>>

\* the delete button exists for non-root nodes only
deleteNode(nodeId) ==
  /\ pending = <<>> /\ ops < MaxOps
  /\ \E i \in DOMAIN nodes : nodes[i].id = nodeId /\ ~isRootNode(nodes[i])
  /\ LET KeepNode(node) == node.id # nodeId
         KeepConn(conn) == conn.sourceId # nodeId /\ conn.targetId # nodeId
     IN /\ nodes' = SelectSeq(nodes, KeepNode)
        /\ connections' = SelectSeq(connections, KeepConn)
  /\ showTodoDialog' = FALSE
  /\ pending' = StateEffects /\ fresh' = FALSE
  /\ wrote' = {} /\ wheel' = NoWheel /\ rendered' = NoRender /\ app' = app /\ requests' = <<>> /\ hit' = NoHit
  /\ ops' = ops + 1
  /\ UNCHANGED <<passVars, controller, touch, dragLog, panLog, store, mapName, mapId, hydrated, now, hydratedKey,
                 selectedNode, connectingMode, gestureVars>>

resetBrainMap ==
  /\ pending = <<>> /\ ops < MaxOps
  /\ LET rootNode == NewRootNode(mapName[mapId], now)
     IN /\ nodes' = <<rootNode>>
        /\ store' = [store EXCEPT ![StorageKey(mapId)] = [nodes |-> Val(Stringify(<<rootNode>>)),
                                              conns |-> Val(<<>>)]]
        /\ mapName' = [mapName EXCEPT ![mapId] = RenamedMap(@, rootNode.title)]
  /\ connections' = <<>>
  /\ selectedNode' = NoNode /\ connectingMode' = NoNode /\ showTodoDialog' = FALSE
  /\ pending' = StateEffects /\ fresh' = FALSE
  /\ wrote' = {StorageKey(mapId)} /\ wheel' = NoWheel /\ rendered' = NoRender /\ app' = app /\ requests' = <<>> /\ hit' = NoHit
  /\ ops' = ops + 1
  /\ zoom' = Q(1) /\ pan' = P(0, 0)
  /\ UNCHANGED <<passVars, controller, touch, dragLog, panLog, mapId, hydrated, now, hydratedKey, flagVars,
                 pointerVars>>

\* ----------------------------------------------------------------- gestures
ScreenPts == {P(0, 0), P(30, 0), P(30, 40)}

\* where the pointer goes down in the gesture runs; the moves and releases
\* range over ScreenPts
PressPts == {P(0, 0)}

\* props and local state of the NodeComponent of node n
NodeDragging(n) == isDragging /\ dragNode.id = n
NodeEditing(n) == editingNodeId = n
NodePlacing(n) == n \in placing

\* dragStartPositionRef.current = null in the NodeComponent of node n
Forget(n) == [m \in DOMAIN dragStartPositionRef \ {n} |-> dragStartPositionRef[m]]

\* geoNear: the pointer is geometrically inside the edge band of the node
checkEdgeProximity(n, geoNear) ==
  IF NodeDragging(n) \/ NodeEditing(n) \/ NodePlacing(n) THEN FALSE ELSE geoNear

\* onTitleChange(localTitle); onFinishEditing() of the node being edited
CommitTitle(t) ==
  /\ LET name == mapName[mapId]
         Upd(node) == TitledNode(node, editingNodeId, t, name)
         renamedRoot == \E i \in DOMAIN nodes :
                          nodes[i].id = editingNodeId /\ nodes[i].isRoot
         rootTitle == IF Len(Trim(t)) > 0 THEN Trim(t) ELSE getRootTitle(name)
     IN /\ nodes' = [i \in DOMAIN nodes |-> Upd(nodes[i])]
        /\ \/ UNCHANGED mapName
           \/ /\ renamedRoot
              /\ mapName' = [mapName EXCEPT ![mapId] = RenamedMap(@, rootTitle)]
  /\ editingNodeId' = NoNode
  /\ pending' = StateEffects /\ fresh' = FALSE

\* the title input loses focus when a pointer-down whose default action is
\* not prevented lands outside it
BlurIfEditing ==
  IF editingNodeId # NoNode
  THEN \E t \in TitleInputs : CommitTitle(t)
  ELSE UNCHANGED <<nodes, mapName, editingNodeId, pending, fresh>>

PointerGuard == pending = <<>> /\ ops < MaxEvents

\* pointer-down on the empty canvas: handleMouseDown starts panning
PointerDownCanvas(e) ==
  /\ PointerGuard /\ inside /\ buttonsDown < MaxButtons
  /\ isPanning' = TRUE
  /\ lastPanPoint' = e
  /\ panLog' = [active |-> TRUE, origin |-> pan, sum |-> P(0, 0),
                 mouse |-> e, finger |-> panLog.finger]
  /\ buttonsDown' = buttonsDown + 1
  /\ ops' = ops + 1 /\ wrote' = {} /\ wheel' = NoWheel /\ rendered' = NoRender /\ app' = app /\ requests' = <<>> /\ hit' = "canvas"
  /\ UNCHANGED <<passVars, controller, touch, dragLog, store, mapName, mapId, nodes, connections, hydrated,
                 pending, fresh, now, hydratedKey, dialogVars, isDragging, dragNode,
                 wasDragging, dragTimer, placing, dragStartPositionRef, editingNodeId, initialClickPos,
                 viewVars, inside>>

\* pointer-down on a button outside the nodes: handleMouseDown does nothing
PointerDownButton ==
  /\ PointerGuard /\ inside /\ buttonsDown < MaxButtons
  /\ BlurIfEditing
  /\ buttonsDown' = buttonsDown + 1
  /\ ops' = ops + 1 /\ wrote' = {} /\ wheel' = NoWheel /\ rendered' = NoRender /\ app' = app /\ requests' = <<>> /\ hit' = "button"
  /\ UNCHANGED <<passVars, controller, touch, dragLog, panLog, store, mapId, connections, hydrated, now, hydratedKey,
                 dialogVars, isPanning, isDragging, dragNode, wasDragging, dragTimer,
                 placing, dragStartPositionRef, initialClickPos, lastPanPoint, viewVars, inside>>

\* a fault: the main container starts the drag whether or not the title is
\* being edited
StartsDragAlways(n) == TRUE

\* the guard of the main container's onMouseDown
StartsDrag(n) == ~NodeEditing(n)

\* onMouseDown of the main container of node n, for a pointer-down on the
\* container or on anything inside it: handleStartDrag unless the node is being
\* edited; the hover state of a node that starts dragging is reset
NodeMouseDown(n, e) ==
  /\ PointerGuard /\ inside /\ buttonsDown < MaxButtons
  /\ n \in NodeIds
  /\ IF StartsDrag(n)
     THEN /\ wasDragging' = FALSE
          /\ dragNode' = [id |-> n, pos |-> NodeWithId(n).pos]
          /\ initialClickPos' = e
          /\ isDragging' = TRUE
          /\ placing' = placing \ {n}
          /\ dragStartPositionRef' = Forget(n)
          /\ dragLog' = [id |-> n, idx |-> CHOOSE i \in DOMAIN nodes : nodes[i].id = n,
                         origin |-> NodeWithId(n).pos,
                         start |-> [i \in DOMAIN nodes |-> nodes[i].pos],
                         sum |-> P(0, 0), last |-> e, at |-> 0]
     ELSE UNCHANGED <<wasDragging, dragNode, initialClickPos, isDragging, placing,
                      dragStartPositionRef, dragLog>>
  /\ BlurIfEditing
  /\ buttonsDown' = buttonsDown + 1
  /\ ops' = ops + 1 /\ wrote' = {} /\ wheel' = NoWheel /\ rendered' = NoRender /\ app' = app /\ requests' = <<>>
  /\ UNCHANGED <<passVars, controller, touch, panLog, store, mapId, connections, hydrated, now, hydratedKey,
                 dialogVars, isPanning, dragTimer, lastPanPoint, viewVars, inside>>

\* pointer-down on the body of node n, outside its buttons and title input
PointerDownBody(n, e) ==
  /\ NodeMouseDown(n, e)
  /\ hit' = "body"

\* pointer-down on the delete button or a status button of node n; only
\* non-root nodes have them, and they handle onClick only
PointerDownNodeButton(n, e) ==
  /\ \E i \in DOMAIN nodes : nodes[i].id = n /\ ~isRootNode(nodes[i])
  /\ NodeMouseDown(n, e)
  /\ hit' = "nodeButton"

\* pointer-down on the title input of the node being edited: the main
\* container does not start a drag, handleMouseDown finds the node element,
\* the input keeps the focus
PointerDownInput ==
  /\ PointerGuard /\ inside /\ buttonsDown < MaxButtons
  /\ editingNodeId \in NodeIds
  /\ buttonsDown' = buttonsDown + 1
  /\ hit' = "input"
  /\ ops' = ops + 1 /\ wrote' = {} /\ wheel' = NoWheel /\ rendered' = NoRender /\ app' = app /\ requests' = <<>>
  /\ UNCHANGED <<passVars, controller, touch, dragLog, panLog, store, mapName, mapId, nodes, connections,
                 hydrated, pending, fresh, now, hydratedKey, dialogVars, flagVars,
                 viewVars, inside>>

\* pointer-down on the hover zone of node n: handleHoverZoneMouseDown
PointerDownHover(n, geoNear, e) ==
  /\ PointerGuard /\ inside /\ buttonsDown < MaxButtons
  /\ n \in NodeIds
  /\ Len(nodes) + Cardinality(placing) < MaxNodes
  /\ IF checkEdgeProximity(n, geoNear)
     THEN /\ placing' = placing \cup {n}
          /\ dragStartPositionRef' =
               [m \in placing \cup {n} |-> IF m = n THEN e ELSE dragStartPositionRef[m]]
          /\ UNCHANGED <<nodes, mapName, editingNodeId, pending, fresh>>
     ELSE /\ UNCHANGED <<placing, dragStartPositionRef>>
          /\ BlurIfEditing
  /\ buttonsDown' = buttonsDown + 1
  /\ ops' = ops + 1 /\ wrote' = {} /\ wheel' = NoWheel /\ rendered' = NoRender /\ app' = app /\ requests' = <<>> /\ hit' = "hover"
  /\ UNCHANGED <<passVars, controller, touch, dragLog, panLog, store, mapId, connections, hydrated, now, hydratedKey,
                 dialogVars, isPanning, isDragging, dragNode, wasDragging, dragTimer,
                 initialClickPos, lastPanPoint, viewVars, inside>>

\* screen displacement to canvas displacement
Unzoom(d) == PDiv(d, zoom)

\* what a pointer-move does: "move" when handleMouseMove calls setNodes for
\* the dragged node
MoveHit == IF isDragging /\ dragNode.id # NoNode THEN "move" ELSE NoHit

\* what a pointer-up does: "dragEnd" when handleMouseUp ends a node drag; the
\* browser delivers the click of that press right after it
UpHit == IF inside /\ isDragging THEN "dragEnd" ELSE NoHit

\* pointer-move over the canvas: handleMouseMove
PointerMove(e) ==
  /\ PointerGuard /\ inside
  /\ IF isDragging /\ dragNode.id # NoNode
     THEN LET dxy == Unzoom(PSub(e, initialClickPos))
              moved == PAdd(dragNode.pos, dxy)
              Upd(node) == IF node.id = dragNode.id THEN [node EXCEPT !.pos = moved]
                           ELSE node
          IN /\ wasDragging' = TRUE
             /\ nodes' = [i \in DOMAIN nodes |-> Upd(nodes[i])]
             /\ initialClickPos' = e
             /\ dragNode' = [dragNode EXCEPT !.pos = moved]
             /\ pending' = StateEffects /\ fresh' = FALSE
             /\ dragLog' = [dragLog EXCEPT
                              !.sum = PAdd(@, PDiv(PSub(e, dragLog.last), zoom)),
                              !.last = e,
                              !.at = now]
     ELSE UNCHANGED <<wasDragging, nodes, initialClickPos, dragNode, pending, fresh,
                      dragLog>>
  /\ IF isPanning
     THEN /\ pan' = PAdd(pan, PSub(e, lastPanPoint))
          /\ lastPanPoint' = e
          /\ panLog' = [panLog EXCEPT !.sum = PAdd(@, PSub(e, panLog.mouse)),
                                      !.mouse = e]
     ELSE UNCHANGED <<pan, lastPanPoint, panLog>>
  /\ ops' = ops + 1 /\ wrote' = {} /\ wheel' = NoWheel /\ rendered' = NoRender /\ app' = app /\ requests' = <<>> /\ hit' = MoveHit
  /\ UNCHANGED <<passVars, controller, touch, store, mapName, mapId, connections, hydrated, now,
                 hydratedKey, dialogVars, isPanning, isDragging, dragTimer, placing,
                 dragStartPositionRef,
                 editingNodeId, zoom, pointerVars>>

\* a fault: the drag ends but setDragNode(null) is missing
handleMouseUpKeepsNode ==
  /\ IF isDragging
     THEN /\ isDragging' = FALSE
          /\ dragNode' = dragNode
          /\ dragTimer' = (wasDragging \/ dragTimer)
     ELSE UNCHANGED <<isDragging, dragNode, dragTimer>>
  /\ isPanning' = FALSE

\* handleMouseUp: the canvas onMouseUp and onMouseLeave handler
handleMouseUp ==
  /\ IF isDragging
     THEN /\ isDragging' = FALSE
          /\ dragNode' = NoDrag
          /\ dragTimer' = (wasDragging \/ dragTimer)
     ELSE UNCHANGED <<isDragging, dragNode, dragTimer>>
  /\ isPanning' = FALSE

\* a fault: a release at exactly MIN_DRAG_DISTANCE still counts as a click
IsQuickClickInclusive(startPos, e) ==
  LET dx == QSub(e.x, startPos.x)
      dy == QSub(e.y, startPos.y)
      limit == Q(MIN_DRAG_DISTANCE * MIN_DRAG_DISTANCE)
  IN ~QLess(limit, QAdd(QMul(dx, dx), QMul(dy, dy)))

\* Math.sqrt(dx * dx + dy * dy) < MIN_DRAG_DISTANCE
IsQuickClick(startPos, e) ==
  LET dx == QSub(e.x, startPos.x)
      dy == QSub(e.y, startPos.y)
  IN QLess(QAdd(QMul(dx, dx), QMul(dy, dy)), Q(MIN_DRAG_DISTANCE * MIN_DRAG_DISTANCE))

\* the callback that handleGlobalMouseUp of node src calls for a release at e;
\* d stands for the offset that the last recorded angle yields
CreationRequest(src, d, e) ==
  IF IsQuickClick(dragStartPositionRef[src], e)
  THEN [kind |-> "angle", source |-> src, at |-> d,
        down |-> dragStartPositionRef[src], up |-> e]
  ELSE [kind |-> "position", source |-> src, at |-> e,
        down |-> dragStartPositionRef[src], up |-> e]

\* the calls of one release, in the order of the document listeners
RECURSIVE CreationRequests(_, _, _)
CreationRequests(sources, d, e) ==
  IF sources = {} THEN <<>>
  ELSE LET src == CHOOSE x \in sources : TRUE
       IN <<CreationRequest(src, d, e)>> \o CreationRequests(sources \ {src}, d, e)

\* position handed to the new node: along the last angle for a quick click,
\* else the release point in canvas coordinates
PlacementPos(req) ==
  IF req.kind = "angle"
  THEN PAdd(NodeWithId(req.source).pos, req.at)
  ELSE Unzoom(PSub(req.at, pan))

\* the nodes and connections after the parent served the calls
RECURSIVE PlacedNodes(_, _)
PlacedNodes(ns, reqs) ==
  IF reqs = <<>> THEN ns
  ELSE LET newNode == [id |-> now, title |-> <<>>, pos |-> PlacementPos(Head(reqs)),
                       status |-> DEFAULT_STATUS, isRoot |-> FALSE]
       IN PlacedNodes(Append(ns, newNode), Tail(reqs))

RECURSIVE PlacedConnections(_, _)
PlacedConnections(cs, reqs) ==
  IF reqs = <<>> THEN cs
  ELSE PlacedConnections(Append(cs, Conn(Head(reqs).source, now)), Tail(reqs))

\* handleGlobalMouseUp of every node in placement mode
GlobalMouseUp(d, e) ==
  IF placing # {}
  THEN LET reqs == CreationRequests(placing, d, e)
       IN /\ requests' = reqs
          /\ nodes' = PlacedNodes(nodes, reqs)
          /\ connections' = PlacedConnections(connections, reqs)
          /\ editingNodeId' = now
          /\ placing' = {}
          /\ dragStartPositionRef' = <<>>
          /\ pending' = StateEffects /\ fresh' = FALSE
  ELSE /\ requests' = <<>>
       /\ UNCHANGED <<nodes, connections, editingNodeId, placing, dragStartPositionRef,
                      pending, fresh>>

\* pointer-up: the canvas handler (pointer over the canvas) and the document
\* listeners of the nodes in placement mode
PointerUp(d, e) ==
  /\ PointerGuard /\ buttonsDown > 0
  /\ IF inside THEN handleMouseUp
     ELSE UNCHANGED <<isDragging, dragNode, dragTimer, isPanning>>
  /\ GlobalMouseUp(d, e)
  /\ buttonsDown' = buttonsDown - 1
  /\ ops' = ops + 1 /\ wrote' = {} /\ wheel' = NoWheel /\ rendered' = NoRender /\ app' = app /\ hit' = UpHit
  /\ UNCHANGED <<passVars, controller, touch, dragLog, panLog, store, mapName, mapId, hydrated, now, hydratedKey,
                 dialogVars, wasDragging, initialClickPos, lastPanPoint, viewVars,
                 inside>>

\* the pointer leaves the canvas element: onMouseLeave
PointerLeave ==
  /\ PointerGuard /\ inside
  /\ handleMouseUp
  /\ inside' = FALSE
  /\ ops' = ops + 1 /\ wrote' = {} /\ wheel' = NoWheel /\ rendered' = NoRender /\ app' = app /\ requests' = <<>> /\ hit' = NoHit
  /\ UNCHANGED <<passVars, controller, touch, dragLog, panLog, store, mapName, mapId, nodes, connections, hydrated,
                 pending, fresh, now, hydratedKey, dialogVars, wasDragging, placing,
                 dragStartPositionRef,
                 editingNodeId, initialClickPos, lastPanPoint, viewVars, buttonsDown>>

PointerEnter ==
  /\ PointerGuard /\ ~inside
  /\ inside' = TRUE
  /\ ops' = ops + 1 /\ wrote' = {} /\ wheel' = NoWheel /\ rendered' = NoRender /\ app' = app /\ requests' = <<>> /\ hit' = NoHit
  /\ UNCHANGED <<passVars, controller, touch, dragLog, panLog, store, mapName, mapId, nodes, connections, hydrated,
                 pending, fresh, now, hydratedKey, dialogVars, flagVars, viewVars, buttonsDown>>

\* the timeout set by handleMouseUp fires
DragTimerFire ==
  /\ dragTimer
  /\ wasDragging' = FALSE
  /\ dragTimer' = FALSE
  /\ wrote' = {} /\ wheel' = NoWheel /\ rendered' = NoRender /\ app' = app /\ requests' = <<>> /\ hit' = NoHit
  /\ UNCHANGED <<passVars, controller, touch, dragLog, panLog, store, mapName, mapId, nodes, connections, hydrated,
                 pending, fresh, now, ops, hydratedKey, dialogVars, isPanning, isDragging,
                 dragNode, placing, dragStartPositionRef, editingNodeId, initialClickPos, lastPanPoint,
                 viewVars, pointerVars>>

\* a fault: the click that ends a drag is handled like any other click
IgnoresClickNever == FALSE

\* if (wasDragging) return; of handleNodeClick
IgnoresClick == wasDragging

\* the click the browser delivers to node n after the release that ended the
\* press on it: handleNodeClick, after startConnecting when the click landed on
\* the connect button of the node (the click bubbles from the button to the
\* node, and handleNodeClick still sees the connectingMode of the last render)
handleNodeClick(n, target) ==
  /\ pending = <<>>
  /\ hit = "dragEnd" /\ dragLog.id = n /\ n \in NodeIds
  /\ target = "connect" => ~isRootNode(NodeWithId(n))
  /\ LET requested == IF target = "connect" THEN n ELSE connectingMode
         connectionExists ==
           \E i \in DOMAIN connections :
             \/ connections[i].sourceId = connectingMode /\ connections[i].targetId = n
             \/ connections[i].sourceId = n /\ connections[i].targetId = connectingMode
     IN IF IgnoresClick
        THEN /\ connectingMode' = requested
             /\ UNCHANGED <<connections, pending, fresh, selectedNode, showTodoDialog>>
        ELSE IF connectingMode # NoNode
        THEN /\ connectingMode' = NoNode
             /\ IF connectingMode = n \/ connectionExists
                THEN UNCHANGED <<connections, pending, fresh>>
                ELSE /\ connections' = Append(connections, Conn(connectingMode, n))
                     /\ pending' = StateEffects /\ fresh' = FALSE
             /\ UNCHANGED <<selectedNode, showTodoDialog>>
        ELSE /\ connectingMode' = requested
             /\ UNCHANGED <<connections, pending, fresh>>
             /\ IF target = "body" /\ ~isRootNode(NodeWithId(n))
                THEN selectedNode' = n /\ showTodoDialog' = TRUE
                ELSE UNCHANGED <<selectedNode, showTodoDialog>>
  /\ ops' = ops + 1 /\ wrote' = {} /\ wheel' = NoWheel /\ rendered' = NoRender /\ app' = app /\ requests' = <<>>
  /\ hit' = "click"
  /\ UNCHANGED <<passVars, controller, touch, dragLog, panLog, store, mapName, mapId, nodes,
                 hydrated, now, hydratedKey, gestureVars>>

\* click on the title of node n: handleTitleClick, onStartEditing; the hover
\* state of a node that starts editing is reset
StartEditing(n) ==
  /\ PointerGuard
  /\ n \in NodeIds
  /\ ~NodeEditing(n)
  /\ editingNodeId' = n
  /\ placing' = placing \ {n}
  /\ dragStartPositionRef' = Forget(n)
  /\ ops' = ops + 1 /\ wrote' = {} /\ wheel' = NoWheel /\ rendered' = NoRender /\ app' = app /\ requests' = <<>> /\ hit' = NoHit
  /\ UNCHANGED <<passVars, controller, touch, dragLog, panLog, store, mapName, mapId, nodes, connections, hydrated,
                 pending, fresh, now, hydratedKey, dialogVars, isPanning, isDragging,
                 dragNode, wasDragging, dragTimer, initialClickPos, lastPanPoint,
                 viewVars, pointerVars>>

\* Enter in the title input: handleTitleKeyDown
FinishEditingEnter(t) ==
  /\ PointerGuard
  /\ editingNodeId # NoNode
  /\ CommitTitle(t)
  /\ ops' = ops + 1 /\ wrote' = {} /\ wheel' = NoWheel /\ rendered' = NoRender /\ app' = app /\ requests' = <<>> /\ hit' = NoHit
  /\ UNCHANGED <<passVars, controller, touch, dragLog, panLog, store, mapId, connections, hydrated, now, hydratedKey,
                 dialogVars, isPanning, isDragging, dragNode, wasDragging, dragTimer,
                 placing, dragStartPositionRef, initialClickPos, lastPanPoint, viewVars, pointerVars>>

\* Escape in the title input: handleTitleKeyDown
FinishEditingEscape ==
  /\ PointerGuard
  /\ editingNodeId # NoNode
  /\ editingNodeId' = NoNode
  /\ ops' = ops + 1 /\ wrote' = {} /\ wheel' = NoWheel /\ rendered' = NoRender /\ app' = app /\ requests' = <<>> /\ hit' = NoHit
  /\ UNCHANGED <<passVars, controller, touch, dragLog, panLog, store, mapName, mapId, nodes, connections, hydrated,
                 pending, fresh, now, hydratedKey, dialogVars, isPanning, isDragging,
                 dragNode, wasDragging, dragTimer, placing, dragStartPositionRef, initialClickPos,
                 lastPanPoint, viewVars, pointerVars>>

\* ------------------------------------------------------------------ viewport
ZoomMin == Norm(1, 10)
ZoomMax == Q(3)
ZoomStep == Norm(1, 10)
WheelDeltas == {-100, -1, 0, 100}
WheelPts == {P(30, 40)}
WheelSigns == {-1, 100}

\* Math.max(0.1, Math.min(3, z))
ClampZoom(z) == QMax(ZoomMin, QMin(ZoomMax, z))

\* newZoom of handleWheel for a wheel event with deltaY = dy
WheelZoom(z, dy) ==
  ClampZoom(QAdd(z, IF dy < 0 THEN ZoomStep ELSE QSub(Q(0), ZoomStep)))

\* a fault: the wheel changes the zoom and leaves the pan alone
WheelPanKept(p, z, newZoom, mouse) == p

\* newPan of handleWheel: (mouse - pan) * (1 - newZoom / zoom) + pan
WheelPan(p, z, newZoom, mouse) ==
  LET scaleChange == QDiv(newZoom, z)
  IN PAdd(PScale(PSub(mouse, p), QSub(Q(1), scaleChange)), p)

\* wheel event over the canvas at client point e; the canvas fills the window
handleWheel(e, dy) ==
  /\ PointerGuard /\ inside
  /\ pan' = WheelPan(pan, zoom, WheelZoom(zoom, dy), e)
  /\ zoom' = WheelZoom(zoom, dy)
  /\ panLog' = [panLog EXCEPT !.active = FALSE]
  /\ ops' = ops + 1 /\ wrote' = {} /\ wheel' = [at |-> e, dy |-> dy, on |-> TRUE] /\ rendered' = NoRender /\ app' = app /\ requests' = <<>> /\ hit' = NoHit
  /\ UNCHANGED <<passVars, controller, touch, dragLog, store, mapName, mapId, nodes, connections,
                 hydrated, pending, fresh, now, hydratedKey, dialogVars, flagVars,
                 pointerVars>>

\* click on the zoom-in button
zoomIn ==
  /\ PointerGuard
  /\ zoom' = QMin(ZoomMax, QAdd(zoom, ZoomStep))
  /\ ops' = ops + 1 /\ wrote' = {} /\ wheel' = NoWheel /\ rendered' = NoRender /\ app' = app /\ requests' = <<>> /\ hit' = "button"
  /\ UNCHANGED <<passVars, controller, touch, dragLog, panLog, store, mapName, mapId, nodes, connections,
                 hydrated, pending, fresh, now, hydratedKey, dialogVars, flagVars, pan,
                 pointerVars>>

\* click on the zoom-out button
zoomOut ==
  /\ PointerGuard
  /\ zoom' = QMax(ZoomMin, QSub(zoom, ZoomStep))
  /\ ops' = ops + 1 /\ wrote' = {} /\ wheel' = NoWheel /\ rendered' = NoRender /\ app' = app /\ requests' = <<>> /\ hit' = "button"
  /\ UNCHANGED <<passVars, controller, touch, dragLog, panLog, store, mapName, mapId, nodes, connections,
                 hydrated, pending, fresh, now, hydratedKey, dialogVars, flagVars, pan,
                 pointerVars>>

\* click on the reset-view button
resetView ==
  /\ PointerGuard
  /\ zoom' = Q(1)
  /\ pan' = P(0, 0)
  /\ panLog' = [panLog EXCEPT !.active = FALSE]
  /\ ops' = ops + 1 /\ wrote' = {} /\ wheel' = NoWheel /\ rendered' = NoRender /\ app' = app /\ requests' = <<>> /\ hit' = "button"
  /\ UNCHANGED <<passVars, controller, touch, dragLog, store, mapName, mapId, nodes, connections,
                 hydrated, pending, fresh, now, hydratedKey, dialogVars, flagVars,
                 pointerVars>>

\* -------------------------------------------------------------- touch hooks
TAP_MS == 200
TAP_PX == 10
TouchPts == {P(0, 0), P(3, 4), P(6, 8)}
TouchDelays == {1, 199}
MaxClock == 210
MaxCoord == 10

\* dx * dx + dy * dy
DistSq(a, b) ==
  LET dx == QSub(a.x, b.x)
      dy == QSub(a.y, b.y)
  IN QAdd(QMul(dx, dx), QMul(dy, dy))

\* Math.sqrt, for the squares of the whole numbers up to MaxCoord
Sqrt(v) == CHOOSE r \in {Q(i) : i \in 0..MaxCoord} : QMul(r, r) = v

\* getTouchDistance
getTouchDistance(a, b) == Sqrt(DistSq(a, b))

\* getTouchCenter
getTouchCenter(a, b) ==
  [x |-> QDiv(QAdd(a.x, b.x), Q(2)), y |-> QDiv(QAdd(a.y, b.y), Q(2))]

\* a fault: a release at exactly 200ms or exactly 10px still counts as a tap
isTapInclusive(endPt) ==
  LET duration == now - touch.startTime
  IN IF ~touch.hasStart THEN FALSE
     ELSE /\ duration <= TAP_MS
          /\ ~QLess(Q(TAP_PX * TAP_PX), DistSq(endPt, touch.startPos))

\* isTap of useTouchHandlers: Math.sqrt(d2) < 10 is d2 < 100
isTap(endPt) ==
  LET duration == now - touch.startTime
  IN IF ~touch.hasStart THEN FALSE
     ELSE /\ duration < TAP_MS
          /\ QLess(DistSq(endPt, touch.startPos), Q(TAP_PX * TAP_PX))

ViewGuard == pending = <<>> /\ ops < MaxEvents

\* time passes while a finger is down
AdvanceTime(dt) ==
  /\ ViewGuard
  /\ now + dt <= MaxClock
  /\ now' = now + dt
  /\ ops' = ops + 1 /\ wrote' = {} /\ wheel' = NoWheel /\ rendered' = NoRender /\ app' = app /\ requests' = <<>> /\ hit' = NoHit
  /\ UNCHANGED <<passVars, controller, touch, dragLog, panLog, store, mapName, mapId, nodes,
                 connections, hydrated, pending, fresh, hydratedKey, dialogVars,
                 gestureVars>>

\* a finger goes down at p: handleTouchStart of useTouchHandlers
tapTouchStart(p) ==
  /\ ViewGuard
  /\ touch' = [touch EXCEPT !.active = TRUE, !.startTime = now, !.hasStart = TRUE,
                            !.startPos = p, !.t0 = now, !.p0 = p]
  /\ ops' = ops + 1 /\ wrote' = {} /\ wheel' = NoWheel /\ rendered' = NoRender /\ app' = app /\ requests' = <<>> /\ hit' = NoHit
  /\ UNCHANGED <<passVars, controller, dragLog, panLog, store, mapName, mapId, nodes,
                 connections, hydrated, pending, fresh, now, hydratedKey, dialogVars,
                 gestureVars>>

\* the finger is lifted at p: the release is classified with isTap, then
\* handleTouchEnd of useTouchHandlers clears the start position
tapTouchEnd(p) ==
  /\ ViewGuard
  /\ touch.active
  /\ touch' = [touch EXCEPT !.active = FALSE, !.hasStart = FALSE,
                            !.release = [kind |-> IF isTap(p) THEN "tap" ELSE "drag",
                                         t0 |-> touch.t0, p0 |-> touch.p0,
                                         t1 |-> now, p1 |-> p]]
  /\ ops' = ops + 1 /\ wrote' = {} /\ wheel' = NoWheel /\ rendered' = NoRender /\ app' = app /\ requests' = <<>> /\ hit' = NoHit
  /\ UNCHANGED <<passVars, controller, dragLog, panLog, store, mapName, mapId, nodes,
                 connections, hydrated, pending, fresh, now, hydratedKey, dialogVars,
                 gestureVars>>

\* zoomAt(S, newZoom) of the viewport: the zoom is clamped and the pan is
\* recomputed as S - (S - pan) * (newZoom / zoom)
zoomAt(S, newZoom) ==
  LET z == ClampZoom(newZoom)
  IN /\ zoom' = z
     /\ pan' = PSub(S, PScale(PSub(S, pan), QDiv(z, zoom)))

\* touchstart with two touches at a and b: handleTouchStart of usePinchZoom
pinchTouchStart(a, b) ==
  /\ ViewGuard
  /\ touch' = [touch EXCEPT !.pinchDist = getTouchDistance(a, b), !.pinchZoom = zoom,
                            !.began = [on |-> TRUE, a |-> a, b |-> b, zoom |-> zoom],
                            !.report = NoTouch.report]
  /\ ops' = ops + 1 /\ wrote' = {} /\ wheel' = NoWheel /\ rendered' = NoRender /\ app' = app /\ requests' = <<>> /\ hit' = NoHit
  /\ UNCHANGED <<passVars, controller, dragLog, panLog, store, mapName, mapId, nodes,
                 connections, hydrated, pending, fresh, now, hydratedKey, dialogVars,
                 gestureVars>>

\* newZoom of handleTouchMove of usePinchZoom
PinchZoom(a, b) ==
  LET scale == QDiv(getTouchDistance(a, b), touch.pinchDist)
  IN ClampZoom(QMul(touch.pinchZoom, scale))

\* touchmove with two touches at a and b: handleTouchMove of usePinchZoom
\* calls onZoom(newZoom, center)
pinchTouchMove(a, b) ==
  /\ ViewGuard
  /\ zoomAt(getTouchCenter(a, b), PinchZoom(a, b))
  /\ touch' = [touch EXCEPT !.report = [on |-> TRUE, a |-> a, b |-> b,
                                        zoom |-> PinchZoom(a, b),
                                        center |-> getTouchCenter(a, b)]]
  /\ panLog' = [panLog EXCEPT !.active = FALSE]
  /\ ops' = ops + 1 /\ wrote' = {} /\ wheel' = NoWheel /\ rendered' = NoRender /\ app' = app /\ requests' = <<>> /\ hit' = NoHit
  /\ UNCHANGED <<passVars, controller, dragLog, store, mapName, mapId, nodes,
                 connections, hydrated, pending, fresh, now, hydratedKey, dialogVars,
                 flagVars, pointerVars>>

\* touchstart with one touch at p: handleTouchStart of useTouchPan
panTouchStart(p) ==
  /\ ViewGuard
  /\ touch' = [touch EXCEPT !.panning = TRUE, !.hasLast = TRUE, !.lastPoint = p]
  /\ panLog' = [active |-> TRUE, origin |-> pan, sum |-> P(0, 0),
                 mouse |-> panLog.mouse, finger |-> p]
  /\ ops' = ops + 1 /\ wrote' = {} /\ wheel' = NoWheel /\ rendered' = NoRender /\ app' = app /\ requests' = <<>> /\ hit' = NoHit
  /\ UNCHANGED <<passVars, controller, dragLog, store, mapName, mapId, nodes,
                 connections, hydrated, pending, fresh, now, hydratedKey, dialogVars,
                 gestureVars>>

\* a fault: the reported delta is divided by the zoom
PanDeltaUnzoomed(p) == PDiv(PSub(p, touch.lastPoint), zoom)

\* deltaX, deltaY that handleTouchMove of useTouchPan reports
PanDelta(p) == PSub(p, touch.lastPoint)

\* touchmove with one touch at p: handleTouchMove of useTouchPan calls
\* onPanMove(deltaX, deltaY), which adds the delta to the pan
panTouchMove(p) ==
  /\ ViewGuard
  /\ touch.panning /\ touch.hasLast
  /\ pan' = PAdd(pan, PanDelta(p))
  /\ touch' = [touch EXCEPT !.lastPoint = p]
  /\ panLog' = [panLog EXCEPT !.sum = PAdd(@, PSub(p, panLog.finger)), !.finger = p]
  /\ ops' = ops + 1 /\ wrote' = {} /\ wheel' = NoWheel /\ rendered' = NoRender /\ app' = app /\ requests' = <<>> /\ hit' = NoHit
  /\ UNCHANGED <<passVars, controller, dragLog, store, mapName, mapId, nodes,
                 connections, hydrated, pending, fresh, now, hydratedKey, dialogVars,
                 flagVars, zoom, pointerVars>>

\* touchend: handleTouchEnd of useTouchPan
panTouchEnd ==
  /\ ViewGuard
  /\ touch.panning
  /\ touch' = [touch EXCEPT !.panning = FALSE, !.hasLast = FALSE]
  /\ ops' = ops + 1 /\ wrote' = {} /\ wheel' = NoWheel /\ rendered' = NoRender /\ app' = app /\ requests' = <<>> /\ hit' = NoHit
  /\ UNCHANGED <<passVars, controller, dragLog, panLog, store, mapName, mapId, nodes,
                 connections, hydrated, pending, fresh, now, hydratedKey, dialogVars,
                 gestureVars>>

\* zoom and pan that earlier wheel, button, pinch and pan events left
ViewZooms == {ZoomMin, Q(1), Norm(29, 10), ZoomMax}
ViewPans == {P(0, 0), P(30, 40)}
PinchPairs == {<<P(0, 0), P(0, 0)>>, <<P(0, 0), P(3, 4)>>, <<P(0, 0), P(6, 8)>>}

\* a hydrated BrainMap with the view somewhere, nothing in progress
InitView ==
  /\ controller = "inline"
  /\ store = [m \in MapIds |->
               IF m = "A" THEN [nodes |-> Val(GoodNodes), conns |-> Val(<<Conn(1, 2)>>)]
               ELSE [nodes |-> Absent, conns |-> Absent]]
  /\ mapName = [m \in MapIds |-> IF m = "A" THEN <<"r">> ELSE <<"b">>]
  /\ mapId = "A"
  /\ nodes = normalizeNodes(GoodNodes, 3)
  /\ connections = <<Conn(1, 2)>>
  /\ hydrated = FALSE
  /\ pending = <<>>
  /\ queue = NoQueue /\ fresh = TRUE
  /\ loadSaw = [key |-> "A", nodes |-> "value", conns |-> "value", raw |-> GoodNodes, at |-> 3]
  /\ now = 3 /\ ops = 0 /\ wrote = {} /\ wheel = NoWheel /\ rendered = NoRender /\ app = NoApp /\ requests = <<>> /\ hit = NoHit /\ hydratedKey = "A"
  /\ selectedNode = NoNode /\ showTodoDialog = FALSE /\ connectingMode = NoNode
  /\ isPanning = FALSE /\ isDragging = FALSE /\ dragNode = NoDrag
  /\ wasDragging = FALSE /\ dragTimer = FALSE /\ placing = {}
  /\ dragStartPositionRef = <<>>
  /\ editingNodeId = NoNode
  /\ initialClickPos = P(0, 0) /\ lastPanPoint = P(0, 0)
  /\ zoom \in ViewZooms /\ pan \in ViewPans
  /\ inside = TRUE /\ buttonsDown = 0
  /\ touch = NoTouch
  /\ dragLog = NoLog /\ panLog = NoPan

\* wheel, zoom buttons, reset and pinch
NextView ==
  \/ \E e \in ScreenPts, dy \in WheelDeltas : handleWheel(e, dy)
  \/ zoomIn
  \/ zoomOut
  \/ resetView
  \/ \E pr \in PinchPairs : pinchTouchStart(pr[1], pr[2])
  \/ \E pr \in PinchPairs : pinchTouchMove(pr[1], pr[2])

SpecView == InitView /\ [][NextView]_vars

\* one finger going down and up while time passes
NextTouch ==
  \/ \E dt \in TouchDelays : AdvanceTime(dt)
  \/ \E p \in TouchPts : tapTouchStart(p)
  \/ \E p \in TouchPts : tapTouchEnd(p)

SpecTouch == InitView /\ [][NextTouch]_vars

\* panning with the mouse and with one finger, at any zoom
NextPan ==
  \/ \E e \in ScreenPts : PointerDownCanvas(e)
  \/ \E e \in ScreenPts : PointerMove(e)
  \/ \E d \in AddOffsets, e \in ScreenPts : PointerUp(d, e)
  \/ \E p \in TouchPts : panTouchStart(p)
  \/ \E p \in TouchPts : panTouchMove(p)
  \/ panTouchEnd
  \/ \E e \in WheelPts, dy \in WheelSigns : handleWheel(e, dy)

SpecPan == InitView /\ [][NextPan]_vars

\* a hydrated BrainMap showing a root and one child, nothing in progress
InitGesture ==
  /\ controller \in {"inline", "hook"}
  /\ store = [m \in MapIds |->
               IF m = "A" THEN [nodes |-> Val(GoodNodes), conns |-> Val(<<Conn(1, 2)>>)]
               ELSE [nodes |-> Absent, conns |-> Absent]]
  /\ mapName = [m \in MapIds |-> IF m = "A" THEN <<"r">> ELSE <<"b">>]
  /\ mapId = "A"
  /\ nodes = normalizeNodes(GoodNodes, 3)
  /\ connections = <<Conn(1, 2)>>
  /\ hydrated = (controller = "hook")
  /\ pending = <<>>
  /\ queue = NoQueue /\ fresh = TRUE
  /\ loadSaw = [key |-> "A", nodes |-> "value", conns |-> "value", raw |-> GoodNodes, at |-> 3]
  /\ now = 3 /\ ops = 0 /\ wrote = {} /\ wheel = NoWheel /\ rendered = NoRender /\ app = NoApp /\ requests = <<>> /\ hit = NoHit /\ hydratedKey = "A"
  /\ selectedNode = NoNode /\ showTodoDialog = FALSE /\ connectingMode = NoNode
  /\ GestureIdle

NextGesture ==
  \/ SaveStep
  \/ Commit
  \/ Tick
  \/ \E e \in PressPts : PointerDownCanvas(e)
  \/ \E n \in NodeIds, e \in PressPts : PointerDownBody(n, e)
  \/ \E n \in NodeIds, e \in PressPts : PointerDownNodeButton(n, e)
  \/ PointerDownInput
  \/ \E n \in NodeIds, g \in BOOLEAN, e \in PressPts : PointerDownHover(n, g, e)
  \/ PointerDownButton
  \/ \E e \in ScreenPts : PointerMove(e)
  \/ \E d \in AddOffsets, e \in ScreenPts : PointerUp(d, e)
  \/ PointerLeave
  \/ PointerEnter
  \/ DragTimerFire
  \/ \E n \in NodeIds : StartEditing(n)
  \/ \E t \in TitleInputs : FinishEditingEnter(t)
  \/ FinishEditingEscape
  \/ \E e \in WheelPts, dy \in WheelSigns : handleWheel(e, dy)

SpecGesture == InitGesture /\ [][NextGesture]_vars

\* a hydrated BrainMap showing a root and two children created in the same
\* millisecond, nothing in progress
InitDrag ==
  /\ controller \in {"inline", "hook"}
  /\ store = [m \in MapIds |->
               IF m = "A" THEN [nodes |-> Val(TwinNodes), conns |-> Val(<<Conn(1, 2), Conn(1, 2)>>)]
               ELSE [nodes |-> Absent, conns |-> Absent]]
  /\ mapName = [m \in MapIds |-> IF m = "A" THEN <<"r">> ELSE <<"b">>]
  /\ mapId = "A"
  /\ nodes = normalizeNodes(TwinNodes, 3)
  /\ connections = <<Conn(1, 2), Conn(1, 2)>>
  /\ hydrated = (controller = "hook")
  /\ pending = <<>>
  /\ queue = NoQueue /\ fresh = TRUE
  /\ loadSaw = [key |-> "A", nodes |-> "value", conns |-> "value", raw |-> TwinNodes, at |-> 3]
  /\ now = 3 /\ ops = 0 /\ wrote = {} /\ wheel = NoWheel /\ rendered = NoRender /\ app = NoApp /\ requests = <<>> /\ hit = NoHit /\ hydratedKey = "A"
  /\ selectedNode = NoNode /\ showTodoDialog = FALSE /\ connectingMode = NoNode
  /\ GestureIdle

\* the events of node drags, and the effects they schedule
NextDrag ==
  \/ SaveStep
  \/ Commit
  \/ \E n \in NodeIds, e \in ScreenPts : PointerDownBody(n, e)
  \/ \E e \in ScreenPts : PointerMove(e)
  \/ \E d \in AddOffsets, e \in ScreenPts : PointerUp(d, e)
  \/ \E e \in WheelPts, dy \in WheelSigns : handleWheel(e, dy)

SpecDrag == InitDrag /\ [][NextDrag]_vars

\* a hydrated BrainMap showing a root and a child: a drag may have ended less
\* than 100 ms ago, a connection may have been started from the child, the
\* dialog of the child may be open and the view may be zoomed
InitClick ==
  /\ controller \in {"inline", "hook"}
  /\ \E conns \in {<<>>, <<Conn(1, 2)>>} :
       /\ connections = conns
       /\ store = [m \in MapIds |->
                    IF m = "A" THEN [nodes |-> Val(GoodNodes), conns |-> Val(conns)]
                    ELSE [nodes |-> Absent, conns |-> Absent]]
  /\ mapName = [m \in MapIds |-> IF m = "A" THEN <<"r">> ELSE <<"b">>]
  /\ mapId = "A"
  /\ nodes = normalizeNodes(GoodNodes, 3)
  /\ hydrated = (controller = "hook")
  /\ pending = <<>>
  /\ queue = NoQueue /\ fresh = TRUE
  /\ loadSaw = [key |-> "A", nodes |-> "value", conns |-> "value", raw |-> GoodNodes, at |-> 3]
  /\ now = 3 /\ ops = 0 /\ wrote = {} /\ wheel = NoWheel /\ rendered = NoRender /\ app = NoApp
  /\ requests = <<>> /\ hit = NoHit /\ hydratedKey = "A"
  /\ connectingMode \in {NoNode, 2}
  /\ showTodoDialog \in BOOLEAN
  /\ selectedNode = (IF showTodoDialog THEN 2 ELSE NoNode)
  /\ wasDragging \in BOOLEAN /\ dragTimer = wasDragging
  /\ isPanning = FALSE /\ isDragging = FALSE /\ dragNode = NoDrag
  /\ placing = {} /\ dragStartPositionRef = <<>>
  /\ editingNodeId = NoNode
  /\ initialClickPos = P(0, 0) /\ lastPanPoint = P(0, 0)
  /\ zoom \in {Q(1), Q(2)} /\ pan = (IF zoom = Q(1) THEN P(0, 0) ELSE P(30, 40))
  /\ inside = TRUE /\ buttonsDown = 0
  /\ touch = NoTouch
  /\ dragLog = NoLog /\ panLog = NoPan

\* presses, drags and clicks on the nodes, the timer of handleMouseUp and the
\* reset button
NextClick ==
  \/ SaveStep
  \/ Commit
  \/ \E n \in NodeIds, e \in PressPts : PointerDownBody(n, e)
  \/ \E e \in ScreenPts : PointerMove(e)
  \/ \E d \in AddOffsets, e \in PressPts : PointerUp(d, e)
  \/ DragTimerFire
  \/ \E n \in NodeIds, target \in {"body", "connect"} : handleNodeClick(n, target)
  \/ resetBrainMap

SpecClick == InitClick /\ [][NextClick]_vars

\* ------------------------------------------------------- status aggregation
IntMax(a, b) == IF a >= b THEN a ELSE b
IntMin(a, b) == IF a <= b THEN a ELSE b

HasNode(id) == \E i \in DOMAIN nodes : nodes[i].id = id

\* the summary calculateStatusSummary starts from for the node it found
OwnSummary(node) ==
  [success |-> IF node.status = "success" THEN 1 ELSE 0,
   failed |-> IF node.status = "failed" THEN 1 ELSE 0,
   pending |-> IF node.status \notin {"success", "failed"} THEN 1 ELSE 0,
   total |-> 1]

\* summary.x += childSummary.x
AddSummary(a, b) ==
  [success |-> a.success + b.success, failed |-> a.failed + b.failed,
   pending |-> a.pending + b.pending, total |-> a.total + b.total]

\* directConnections of calculateStatusSummary: the other end of every
\* connection that touches nodeId, in the order of the connections
RECURSIVE directConnections(_, _)
directConnections(nodeId, conns) ==
  IF conns = <<>> THEN <<>>
  ELSE LET c == Head(conns)
           rest == directConnections(nodeId, Tail(conns))
       IN IF c.sourceId = nodeId THEN <<c.targetId>> \o rest
          ELSE IF c.targetId = nodeId THEN <<c.sourceId>> \o rest
          ELSE rest

\* a fault: no node ever counts as visited
VisitedNever(r, id) == FALSE

\* visited.has(id)
Visited(r, id) == id \in r.visited

\* a call of calculateStatusSummary returns s: the caller adds it to its
\* summary; the outermost call hands it to the render
ReturnTo(r, s) ==
  IF r.stack = <<>>
  THEN [r EXCEPT !.phase = "done", !.result = s]
  ELSE [r EXCEPT !.stack[Len(r.stack)].summary = AddSummary(@, s)]

\* calculateStatusSummary(nodeId, visited) up to its loop
EnterCall(r, nodeId) ==
  IF Visited(r, nodeId)
  THEN ReturnTo(r, ZeroSummary)
  ELSE LET v == r.visited \cup {nodeId}
       IN IF ~HasNode(nodeId)
          THEN ReturnTo([r EXCEPT !.visited = v], ZeroSummary)
          ELSE [r EXCEPT !.visited = v,
                         !.stack = Append(@, [id |-> nodeId,
                                              todo |-> directConnections(nodeId, connections),
                                              summary |-> OwnSummary(NodeWithId(nodeId))])]

\* longest word of a trimmed title: split(/\s+/) and the longest length
RECURSIVE LongestWord(_, _, _)
LongestWord(t, run, best) ==
  IF t = <<>> THEN IntMax(run, best)
  ELSE IF Head(t) = " " THEN LongestWord(Tail(t), 0, IntMax(run, best))
  ELSE LongestWord(Tail(t), run + 1, best)

\* getNodeSize; the boosts are computed in halves of a pixel
getNodeSize(node, connectedCount) ==
  LET baseSize == IF isRootNode(node) THEN IntMax(220, 200 + connectedCount * 22) ELSE 140
      normalizedTitle == Trim(node.title)
      lengthBoost2 == IntMax(Len(normalizedTitle) - 18, 0) * 5
      wordBoost2 == IntMax(LongestWord(normalizedTitle, 0, 0) - 12, 0) * 12
      combinedBoost2 == IntMin(440, lengthBoost2 + wordBoost2)
  IN Norm(IntMin(840, 2 * baseSize + combinedBoost2), 2)

\* connections.filter(c => c.sourceId === id || c.targetId === id).length
ConnectedCount(id) ==
  Cardinality({i \in DOMAIN connections :
                 connections[i].sourceId = id \/ connections[i].targetId = id})

\* the number c + (d / distance) * radius, kept as value + plus / sqrt(overRoot);
\* with distance 0 the quotient d / distance is 0 / 0
Along(c, d, distSq, radius) ==
  IF distSq = Q(0)
  THEN [value |-> NaN, plus |-> Q(0), overRoot |-> Q(1)]
  ELSE [value |-> c, plus |-> QMul(d, radius), overRoot |-> distSq]

NoLine == [drawn |-> FALSE]

\* a fault: a line element is returned without looking the two nodes up
renderLineUnchecked(conn) == [drawn |-> TRUE]

\* the element renderConnections returns for one connection
renderLine(conn) ==
  IF ~HasNode(conn.sourceId) \/ ~HasNode(conn.targetId)
  THEN NoLine
  ELSE LET sourceNode == NodeWithId(conn.sourceId)
           targetNode == NodeWithId(conn.targetId)
           sourceSize == getNodeSize(sourceNode, ConnectedCount(sourceNode.id))
           targetSize == getNodeSize(targetNode, ConnectedCount(targetNode.id))
           startX == QAdd(sourceNode.pos.x, QDiv(sourceSize, Q(2)))
           startY == QAdd(sourceNode.pos.y, QDiv(sourceSize, Q(2)))
           endX == QAdd(targetNode.pos.x, QDiv(targetSize, Q(2)))
           endY == QAdd(targetNode.pos.y, QDiv(targetSize, Q(2)))
           dx == QSub(endX, startX)
           dy == QSub(endY, startY)
           distSq == QAdd(QMul(dx, dx), QMul(dy, dy))
           sourceRadius == QSub(QDiv(sourceSize, Q(2)), Q(2))
           targetRadius == QSub(QDiv(targetSize, Q(2)), Q(2))
       IN [drawn |-> TRUE,
           from |-> [x |-> startX, y |-> startY], to |-> [x |-> endX, y |-> endY],
           x1 |-> Along(startX, dx, distSq, sourceRadius),
           y1 |-> Along(startY, dy, distSq, sourceRadius),
           x2 |-> Along(endX, QNeg(dx), distSq, targetRadius),
           y2 |-> Along(endY, QNeg(dy), distSq, targetRadius)]

\* renderConnections: one element per connection
renderConnections == [i \in DOMAIN connections |-> renderLine(connections[i])]

RenderKept == <<syncVars, dialogVars, gestureVars, touch, dragLog, panLog, requests, hit,
                wheel, app>>

\* a render begins: the lines are computed and calculateStatusSummary(n) is
\* called with an empty visited set
SummaryStart(n) ==
  /\ rendered.phase = "idle"
  /\ n \in NodeIds
  /\ rendered' = EnterCall([NoRender EXCEPT !.phase = "running", !.start = n,
                                            !.lines = renderConnections, !.steps = 1], n)
  /\ UNCHANGED RenderKept

\* one turn of the for loop of the innermost call
SummaryLoop ==
  /\ rendered.phase = "running"
  /\ LET top == Len(rendered.stack)
     IN /\ rendered.stack[top].todo # <<>>
        /\ LET connectedNodeId == Head(rendered.stack[top].todo)
               r == [rendered EXCEPT !.stack[top].todo = Tail(@), !.steps = @ + 1]
           IN rendered' = IF Visited(rendered, connectedNodeId) THEN r
                          ELSE EnterCall(r, connectedNodeId)
  /\ UNCHANGED RenderKept

\* the loop of the innermost call is over: return summary
SummaryReturn ==
  /\ rendered.phase = "running"
  /\ LET top == Len(rendered.stack)
     IN /\ rendered.stack[top].todo = <<>>
        /\ rendered' = ReturnTo([rendered EXCEPT !.stack = SubSeq(@, 1, top - 1),
                                                 !.steps = @ + 1],
                                rendered.stack[top].summary)
  /\ UNCHANGED RenderKept

\* summaryWithoutSelf of NodeComponent for a root node
summaryWithoutSelf(summary, nodeStatus) ==
  [success |-> IntMax(summary.success - (IF nodeStatus = "success" THEN 1 ELSE 0), 0),
   failed |-> IntMax(summary.failed - (IF nodeStatus = "failed" THEN 1 ELSE 0), 0),
   pending |-> IntMax(summary.pending - (IF nodeStatus = "pending" THEN 1 ELSE 0), 0),
   total |-> IntMax(summary.total - 1, 0)]

\* isRootNode of App.tsx on a stored record
AppIsRootNode(raw) ==
  IF raw.isRoot \in {"true", "false"}
  THEN raw.isRoot = "true"
  ELSE (raw.hasId /\ raw.id = RootLiteralId) \/ (raw.hasTitle /\ raw.title \in ROOT_TITLES)

\* getMapProgress of App.tsx on the stored nodes entry
getMapProgress(entry) ==
  IF entry.kind # "value" THEN Q(0)
  ELSE LET raws == entry.val
           hasExplicitRoot == \E i \in DOMAIN raws : AppIsRootNode(raws[i])
           trackable == {i \in DOMAIN raws :
                           ~AppIsRootNode(raws[i]) /\ ~(~hasExplicitRoot /\ i = 1)}
           successful == {i \in trackable : raws[i].status = "success"}
       IN IF trackable = {} THEN Q(0)
          ELSE QMul(QDiv(Q(Cardinality(successful)), Q(Cardinality(trackable))), Q(100))

\* stored maps for the aggregation: a root and one or two children
SummaryRoots == {"pending", "success"}
SummaryPlaces == {P(600, 324), P(900, 724)}
SummaryNodeLists ==
  {<< RawNode(TRUE, 1, TRUE, <<"r">>, TRUE, P(452, 324), s1, "true", FALSE, <<>>),
      RawNode(TRUE, 2, TRUE, <<"c">>, TRUE, P(600, 324), s2, "false", FALSE, <<>>) >> :
     s1 \in SummaryRoots, s2 \in Statuses}
  \cup
  {<< RawNode(TRUE, 1, TRUE, <<"r">>, TRUE, P(452, 324), s1, "true", FALSE, <<>>),
      RawNode(TRUE, 2, TRUE, <<"c">>, TRUE, P(600, 324), s2, "false", FALSE, <<>>),
      RawNode(TRUE, 3, TRUE, <<"d">>, TRUE, p3, s3, "false", FALSE, <<>>) >> :
     s1 \in SummaryRoots, s2 \in Statuses, s3 \in Statuses, p3 \in SummaryPlaces}

\* connections a stored entry may hold: tree edges, an edge back to the root,
\* a self-loop and two edges to a node 4 that is not there
SummaryEdges == <<Conn(1, 2), Conn(2, 3), Conn(3, 1), Conn(2, 2), Conn(1, 4), Conn(4, 3)>>

RECURSIVE PickEdges(_, _)
PickEdges(i, chosen) ==
  IF i > Len(SummaryEdges) THEN <<>>
  ELSE (IF i \in chosen THEN <<SummaryEdges[i]>> ELSE <<>>) \o PickEdges(i + 1, chosen)

\* a hydrated and saved BrainMap about to render
InitSummary ==
  /\ controller = "inline"
  /\ \E raws \in SummaryNodeLists, chosen \in SUBSET DOMAIN SummaryEdges :
       /\ nodes = normalizeNodes(raws, 3)
       /\ connections = PickEdges(1, chosen)
       /\ store = [m \in MapIds |->
                    IF m = "A" THEN [nodes |-> Val(Stringify(normalizeNodes(raws, 3))),
                                     conns |-> Val(PickEdges(1, chosen))]
                    ELSE [nodes |-> Absent, conns |-> Absent]]
       /\ loadSaw = [key |-> "A", nodes |-> "value", conns |-> "value", raw |-> raws, at |-> 3]
  /\ mapName = [m \in MapIds |-> IF m = "A" THEN <<"r">> ELSE <<"b">>]
  /\ mapId = "A"
  /\ hydrated = FALSE
  /\ pending = <<>>
  /\ queue = NoQueue /\ fresh = TRUE
  /\ now = 3 /\ ops = 0 /\ wrote = {} /\ wheel = NoWheel /\ rendered = NoRender /\ app = NoApp
  /\ requests = <<>> /\ hit = NoHit /\ hydratedKey = "A"
  /\ selectedNode = NoNode /\ showTodoDialog = FALSE /\ connectingMode = NoNode
  /\ GestureIdle

NextSummary ==
  \/ \E n \in NodeIds : SummaryStart(n)
  \/ SummaryLoop
  \/ SummaryReturn

SpecSummary == InitSummary /\ [][NextSummary]_vars

\* calculateStatusSummary is synchronous: once the render has called it, its
\* loops and returns go on until the outermost call returns
SpecSummaryLive ==
  InitSummary /\ [][NextSummary]_vars
  /\ WF_rendered(SummaryLoop) /\ WF_rendered(SummaryReturn)

\* a hydrated and saved BrainMap about to render, with two children that got
\* one id from addNode
InitSummaryTwin ==
  /\ controller = "inline"
  /\ \E chosen \in SUBSET DOMAIN SummaryEdges :
       /\ nodes = normalizeNodes(TwinNodes, 3)
       /\ connections = <<Conn(1, 2), Conn(1, 2)>> \o PickEdges(1, chosen)
       /\ store = [m \in MapIds |->
                    IF m = "A" THEN [nodes |-> Val(Stringify(normalizeNodes(TwinNodes, 3))),
                                     conns |-> Val(<<Conn(1, 2), Conn(1, 2)>>
                                                   \o PickEdges(1, chosen))]
                    ELSE [nodes |-> Absent, conns |-> Absent]]
  /\ loadSaw = [key |-> "A", nodes |-> "value", conns |-> "value", raw |-> TwinNodes, at |-> 3]
  /\ mapName = [m \in MapIds |-> IF m = "A" THEN <<"r">> ELSE <<"b">>]
  /\ mapId = "A"
  /\ hydrated = FALSE
  /\ pending = <<>>
  /\ queue = NoQueue /\ fresh = TRUE
  /\ now = 3 /\ ops = 0 /\ wrote = {} /\ wheel = NoWheel /\ rendered = NoRender /\ app = NoApp
  /\ requests = <<>> /\ hit = NoHit /\ hydratedKey = "A"
  /\ selectedNode = NoNode /\ showTodoDialog = FALSE /\ connectingMode = NoNode
  /\ GestureIdle

SpecSummaryTwin == InitSummaryTwin /\ [][NextSummary]_vars

\* ------------------------------------------------ node size (width, height)
MaxNeighbours == 12

\* the smallest integer that is at least a / b, for a >= 0 and b > 0
CeilDiv(a, b) == (a + b - 1) \div b

\* normalizedTitle.split(/\s+/) of a trimmed title, as the lengths of the words
RECURSIVE WordLengths(_, _)
WordLengths(t, run) ==
  IF t = <<>> THEN (IF run > 0 THEN <<run>> ELSE <<>>)
  ELSE IF Head(t) = " "
       THEN (IF run > 0 THEN <<run>> ELSE <<>>) \o WordLengths(Tail(t), 0)
       ELSE WordLengths(Tail(t), run + 1)

\* the for loop of getNodeSize over the words: the number of lines; widths
\* are in hundredths of a pixel
RECURSIVE WrapLines(_, _, _, _, _)
WrapLines(ws, lineCount, currentLineWidth, textAreaWidth, avgCharWidth) ==
  IF ws = <<>> THEN lineCount
  ELSE LET wordWidth == Head(ws) * avgCharWidth
       IN IF wordWidth > textAreaWidth
          THEN LET extraLines == CeilDiv(wordWidth, textAreaWidth)
                   remainder == wordWidth % textAreaWidth
               IN WrapLines(Tail(ws),
                            (IF currentLineWidth > 0 THEN lineCount + 1 ELSE lineCount)
                              + extraLines - 1,
                            IF remainder = 0 THEN textAreaWidth ELSE remainder,
                            textAreaWidth, avgCharWidth)
          ELSE IF currentLineWidth = 0
          THEN WrapLines(Tail(ws), lineCount, wordWidth, textAreaWidth, avgCharWidth)
          ELSE IF currentLineWidth + avgCharWidth + wordWidth <= textAreaWidth
          THEN WrapLines(Tail(ws), lineCount, currentLineWidth + avgCharWidth + wordWidth,
                         textAreaWidth, avgCharWidth)
          ELSE WrapLines(Tail(ws), lineCount + 1, wordWidth, textAreaWidth, avgCharWidth)

\* getNodeSize(node, connectedCount, titleOverride) of the node size module:
\* title is the override while the title is edited and node.title if not
NodeSize(root, title, connectedCount, editing) ==
  LET normalizedTitle == Trim(title)
      baseWidth == IF root THEN IntMax(200, 180 + connectedCount * 20) ELSE 160
      minWidth == IF root THEN 200 ELSE 184
      maxWidth == IF root THEN 400 ELSE 320
      buttonAreaHeight == IF root THEN 92 ELSE 76
      editingBuffer == IF editing THEN 12 ELSE 0
  IN IF normalizedTitle = <<>>
     THEN LET width == IntMax(minWidth, baseWidth)
              height == 48 + 24 + 20 + buttonAreaHeight + 20 + editingBuffer
          IN [width |-> width, height |-> IntMax(width, height)]
     ELSE LET fontSize == IF root THEN 20 ELSE 18
              \* avgCharWidth = fontSize * 0.52, in hundredths of a pixel
              avgCharWidth == fontSize * 52
              words == WordLengths(normalizedTitle, 0)
              longestWord == LongestWord(normalizedTitle, 0, 0)
              totalLength == Len(normalizedTitle)
              wordCount == Len(words)
              \* Math.ceil(chars * avgCharWidth / 0.75) + 48
              WidthFor(chars) == CeilDiv(chars * avgCharWidth, 75) + 48
              minWidthForWord == WidthFor(longestWord)
              estimatedLines == CeilDiv(totalLength, 12)
              charsPerLine == CeilDiv(totalLength, IntMin(estimatedLines, 3))
              targetWidth ==
                IF wordCount <= 2 /\ totalLength <= 16
                THEN IntMax(baseWidth, WidthFor(totalLength))
                ELSE IntMax(baseWidth, WidthFor(charsPerLine))
              finalWidth ==
                IntMax(minWidth, IntMin(maxWidth, IntMax(targetWidth, minWidthForWord)))
              titleMaxWidthRatio == IF editing THEN 75 ELSE IF root THEN 85 ELSE 80
              titleInnerPaddingX == IF editing THEN 24 ELSE 0
              textAreaWidth ==
                IntMax(40 * 100,
                       (finalWidth - 32) * titleMaxWidthRatio - titleInnerPaddingX * 100)
              lineCount == WrapLines(words, 1, 0, textAreaWidth, avgCharWidth)
              \* lineHeight = fontSize * 1.5; the paddings are whole pixels
              totalHeightCeil ==
                48 + CeilDiv(lineCount * fontSize * 3, 2) + 20 + buttonAreaHeight + 20
                  + editingBuffer
              minHeight == IF root THEN 160 ELSE 150
          IN [width |-> finalWidth, height |-> IntMax(minHeight, totalHeightCeil + 12)]

\* titles of n letters, and the titles a node is measured with
Letters(n) == [i \in 1..n |-> "a"]
SizeTitles ==
  {<<>>, <<" ", " ">>, Letters(3), Letters(16), Letters(17), Letters(40),
   Letters(5) \o <<" ">> \o Letters(9), <<" ">> \o Letters(2) \o <<" ", " ">> \o Letters(30),
   Letters(12) \o <<" ">> \o Letters(12) \o <<" ">> \o Letters(12) \o <<" ">> \o Letters(2)}

\* a node of some kind, title and number of connections is about to be rendered
InitSize ==
  /\ controller = "inline"
  /\ store = [m \in MapIds |->
               IF m = "A" THEN [nodes |-> Val(GoodNodes), conns |-> Val(<<Conn(1, 2)>>)]
               ELSE [nodes |-> Absent, conns |-> Absent]]
  /\ mapName = [m \in MapIds |-> IF m = "A" THEN <<"r">> ELSE <<"b">>]
  /\ mapId = "A"
  /\ nodes = normalizeNodes(GoodNodes, 3)
  /\ connections = <<Conn(1, 2)>>
  /\ hydrated = FALSE
  /\ pending = <<>>
  /\ queue = NoQueue /\ fresh = TRUE
  /\ loadSaw = [key |-> "A", nodes |-> "value", conns |-> "value", raw |-> GoodNodes, at |-> 3]
  /\ now = 3 /\ ops = 0 /\ wrote = {} /\ wheel = NoWheel /\ requests = <<>> /\ hit = NoHit
  /\ hydratedKey = "A" /\ app = NoApp
  /\ \E r \in BOOLEAN, t \in SizeTitles, c \in 0..MaxNeighbours, e \in BOOLEAN :
       rendered = [NoRender EXCEPT !.size = [NoSize EXCEPT !.root = r, !.title = t,
                                                           !.count = c, !.editing = e]]
  /\ selectedNode = NoNode /\ showTodoDialog = FALSE /\ connectingMode = NoNode
  /\ GestureIdle

\* the render measures the node
MeasureNode ==
  /\ ~rendered.size.asked
  /\ LET sz == rendered.size
         size == NodeSize(sz.root, sz.title, sz.count, sz.editing)
     IN rendered' = [rendered EXCEPT !.size.asked = TRUE, !.size.width = size.width,
                                     !.size.height = size.height]
  /\ UNCHANGED RenderKept

NextSize == MeasureNode

SpecSize == InitSize /\ [][NextSize]_vars

\* ------------------------------------------------------------------- Spec
Next ==
  \/ ResetEffect
  \/ LoadEffect
  \/ SaveStep
  \/ Commit
  \/ Tick
  \/ \E m \in MapIds : SwitchMapRemount(m)
  \/ \E m \in MapIds : RerenderMapId(m)
  \/ \E id \in NodeIds : addNode(id)
  \/ \E id \in NodeIds, t \in TitleInputs : updateNodeTitle(id, t)
  \/ \E id \in NodeIds, st \in Statuses : updateNodeStatus(id, st)
  \/ \E id \in NodeIds : deleteNode(id)
  \/ resetBrainMap

Spec == Init /\ [][Next]_vars

\* ------------------------------------------- hydration of arbitrary entries
\* stored node records: each field present or missing, flagged or legacy
IdOpts == {[has |-> FALSE, v |-> 0], [has |-> TRUE, v |-> RootLiteralId],
           [has |-> TRUE, v |-> 1]}
TitleOpts == {[has |-> FALSE, v |-> <<>>], [has |-> TRUE, v |-> <<"p">>],
              [has |-> TRUE, v |-> Work]}
TodoOpts == {[has |-> FALSE, v |-> <<>>], [has |-> TRUE, v |-> <<>>],
             [has |-> TRUE, v |-> <<TRUE, TRUE>>],
             [has |-> TRUE, v |-> <<TRUE, FALSE>>]}

RawFirst ==
  {RawNode(i.has, i.v, t.has, t.v, hp, P(10, 10), st, ir, td.has, td.v) :
     i \in IdOpts, t \in TitleOpts, hp \in BOOLEAN, st \in {"none", "failed", "bogus"},
     ir \in {"none", "false", "true"}, td \in TodoOpts}

RawSecond ==
  {LegacyNoRoot[2], LegacyTwoRoots[2], GoodNodes[2],
   RawNode(TRUE, 2, TRUE, <<"q">>, TRUE, P(0, 0), "failed", "true", FALSE, <<>>)}

RawLists == {<<a>> : a \in RawFirst} \cup {<<a, b>> : a \in RawFirst, b \in RawSecond}

\* a BrainMap has just been rendered for the first time over any stored list
InitNormalize ==
  /\ controller \in {"inline", "hook"}
  /\ \E raw \in RawLists :
       store = [m \in MapIds |->
                  IF m = "A" THEN [nodes |-> Val(raw), conns |-> Absent]
                  ELSE [nodes |-> Absent, conns |-> Absent]]
  /\ mapName = [m \in MapIds |-> IF m = "A" THEN <<"m">> ELSE <<"b">>]
  /\ mapId = "A"
  /\ nodes = <<>> /\ connections = <<>> /\ hydrated = FALSE
  /\ pending = MountEffects
  /\ queue = NoQueue /\ loadSaw = NoLoad /\ fresh = FALSE
  /\ now = 3 /\ ops = 0 /\ wrote = {} /\ wheel = NoWheel /\ rendered = NoRender /\ app = NoApp /\ requests = <<>> /\ hit = NoHit /\ hydratedKey = NoMap
  /\ selectedNode = NoNode /\ showTodoDialog = FALSE /\ connectingMode = NoNode
  /\ GestureIdle

NextNormalize ==
  \/ ResetEffect
  \/ LoadEffect
  \/ SaveStep
  \/ Commit

SpecNormalize == InitNormalize /\ [][NextNormalize]_vars

C3_HydratedFalseWhileLoading ==
  (controller = "hook" /\ hydratedKey # mapId) => (hydrated = FALSE /\ wrote = {})

\* C4: once the map is hydrated and a mutation has been committed and its
\* effects have run, the persisted nodes and connections equal the ones in
\* memory (an absent or unparsable connections entry reads as empty).
C4_PersistedEqualsMemory ==
  (~fresh /\ hydratedKey = mapId /\ pending = <<>>) =>
    /\ store[mapId].nodes = Val(Stringify(nodes))
    /\ connections = (IF store[mapId].conns.kind = "value"
                      THEN store[mapId].conns.val ELSE <<>>)

\* C5: after a hydration that found the nodes entry absent, unparsable or
\* empty, the node set is one root node with status pending titled with the
\* trimmed map name (My Tasks for a blank name), and once the effects have
\* run that node set is the persisted nodes entry.
C5_SeedRoot ==
  (fresh /\ loadSaw.nodes \in {"absent", "corrupt", "empty"}) =>
    LET name == Trim(mapName[mapId])
    IN /\ Len(nodes) = 1
       /\ nodes[1].isRoot = TRUE
       /\ nodes[1].status = "pending"
       /\ nodes[1].title = (IF name # <<>> THEN name ELSE MyTasks)
       /\ (pending = <<>> => store[mapId].nodes = Val(Stringify(nodes)))

\* an unparsable nodes entry under a blank map name was replaced by the
\* persisted fallback root
C5_Witness ==
  /\ fresh /\ loadSaw.nodes = "corrupt" /\ pending = <<>>
  /\ Len(nodes) = 1 /\ nodes[1].title = MyTasks
  /\ store[mapId].nodes = Val(Stringify(nodes))

\* C6: after a hydration that found the connections entry absent or
\* unparsable, the connection set is empty and the node set is what the
\* normalization of the stored nodes gives.
C6_MissingConnectionsEmpty ==
  (fresh /\ loadSaw.conns \in {"absent", "corrupt"}) =>
    /\ connections = <<>>
    /\ (loadSaw.nodes = "value" => nodes = normalizeNodes(loadSaw.raw, loadSaw.at))

\* C7: once the current map is hydrated, exactly one node of the node set has
\* isRoot true.
C7_ExactlyOneRoot ==
  hydratedKey = mapId => RootCount(nodes) = 1

\* C8: when no stored node is a root after the normalization of each node,
\* hydration gives the list of the normalized nodes with isRoot true on the
\* first and every other field of every node as normalization left it.
C8_FirstPromoted ==
  LET per == [i \in DOMAIN loadSaw.raw |-> normalizeNode(loadSaw.raw[i], loadSaw.at)]
  IN (fresh /\ loadSaw.nodes = "value" /\ \A i \in DOMAIN per : ~per[i].isRoot) =>
       /\ Len(nodes) = Len(per)
       /\ \A i \in DOMAIN per : nodes[i] = [per[i] EXCEPT !.isRoot = (i = 1)]

\* two legacy records without any root mark were hydrated
C8_Witness ==
  /\ fresh /\ Len(loadSaw.raw) = 2
  /\ \A i \in DOMAIN loadSaw.raw :
       /\ loadSaw.raw[i].isRoot = "none"
       /\ ~(loadSaw.raw[i].hasId /\ loadSaw.raw[i].id = RootLiteralId)
       /\ ~(loadSaw.raw[i].hasTitle /\ loadSaw.raw[i].title \in ROOT_TITLES)
  /\ Len(nodes) = 2 /\ nodes[1].isRoot /\ ~nodes[2].isRoot

\* C9: at most one of the modes panning, draggingNode,
\* draggingNewNodePlacement and editingTitle is active.
C9_AtMostOneMode ==
  /\ ~(isPanning /\ isDragging)
  /\ ~(isPanning /\ placing # {})
  /\ ~(isPanning /\ editingNodeId # NoNode)
  /\ ~(isDragging /\ placing # {})
  /\ ~(isDragging /\ editingNodeId # NoNode)
  /\ ~(placing # {} /\ editingNodeId # NoNode)

\* C10: a pointer-up and a pointer-leave leave isPanning and isDragging false
\* and no drag node, a pointer-up leaves no node in placement mode, and when
\* no button is held none of panning, node dragging and placement is active.
C10_ReleaseEndsGesture ==
  [][/\ (buttonsDown' < buttonsDown \/ (inside /\ ~inside')) =>
          (~isPanning' /\ ~isDragging' /\ dragNode' = NoDrag)
     /\ buttonsDown' < buttonsDown => placing' = {}
     /\ buttonsDown' = 0 => (~isPanning' /\ ~isDragging' /\ placing' = {})]_vars

\* a node drag with movement was ended by the release of the last button
C10_Witness ==
  /\ dragTimer /\ wasDragging /\ ~isDragging /\ dragNode = NoDrag /\ buttonsDown = 0

\* C11: after a pointer-down on a node's body and any pointer-moves since, the
\* pressed node is at its position at the pointer-down plus the sum of the
\* screen deltas of the moves, each divided by the zoom current at that move,
\* and every other node is where it was at the pointer-down; this stays so
\* through the release, until the next drag starts
C11_DragSumsDeltas ==
  dragLog.id # NoNode =>
    /\ nodes[dragLog.idx].pos = PAdd(dragLog.origin, dragLog.sum)
    /\ \A i \in DOMAIN dragLog.start :
         i # dragLog.idx => nodes[i].pos = dragLog.start[i]

\* C12: a pointer release while nodes are in placement mode makes each of them
\* call exactly one creation callback, once: the angle-based one if the
\* release point is less than 50px from the pointer-down point, else the
\* position-based one with the release point; no node stays in placement
\* mode and no other step calls a creation callback
C12_OneRequestPerPlacement ==
  [][IF buttonsDown' < buttonsDown
     THEN /\ placing' = {}
          /\ Len(requests') = Cardinality(placing)
          /\ \A n \in placing :
               /\ Cardinality({i \in DOMAIN requests' : requests'[i].source = n}) = 1
               /\ \A i \in DOMAIN requests' :
                    requests'[i].source = n =>
                      LET r == requests'[i]
                          dx == QSub(r.up.x, r.down.x)
                          dy == QSub(r.up.y, r.down.y)
                          near == QLess(QAdd(QMul(dx, dx), QMul(dy, dy)), Q(50 * 50))
                      IN /\ r.down = dragStartPositionRef[n]
                         /\ r.kind = IF near THEN "angle" ELSE "position"
                         /\ r.kind = "position" => r.at = r.up
     ELSE requests' = <<>>]_vars

\* a placement pressed at (0,0) has been released at (30,40), exactly 50px
\* away, and its node has called the position-based callback
C12_Witness ==
  /\ placing = {}
  /\ Len(requests) = 1
  /\ requests[1].kind = "position"
  /\ requests[1].down = P(0, 0) /\ requests[1].up = P(30, 40)

\* C13: a user operation that creates a node appends exactly one node, with
\* empty title, status pending and isRoot false, appends exactly one
\* connection from an existing node to the new node, and puts the new node
\* into title-edit mode
C13_CreationEmptyAndEditing ==
  [][(ops' = ops + 1 /\ Len(nodes') > Len(nodes) /\ Len(nodes) > 0) =>
       LET new == nodes'[Len(nodes')]
           conn == connections'[Len(connections')]
       IN /\ Len(nodes') = Len(nodes) + 1
          /\ SubSeq(nodes', 1, Len(nodes)) = nodes
          /\ new.title = <<>> /\ new.status = "pending" /\ new.isRoot = FALSE
          /\ Len(connections') = Len(connections) + 1
          /\ conn.sourceId \in NodeIds /\ conn.targetId = new.id
          /\ editingNodeId' = new.id]_vars

\* C14: a pointer-down or click that lands on a button or on a text input,
\* inside a node or outside, starts neither panning nor a node drag nor a
\* placement, and leaves what the node-level click action sets (the selected
\* node, the dialog, the connecting mode, the connections) as it was
C14_ChromeStartsNoGesture ==
  [][hit' \in {"button", "nodeButton", "input"} =>
       /\ isPanning' => isPanning
       /\ isDragging' => (isDragging /\ dragNode' = dragNode)
       /\ placing' \subseteq placing
       /\ UNCHANGED <<dialogVars, connections>>]_vars

\* C15: a pointer-down on the body of a node while the title of some node is
\* being edited does not start a drag of the node being edited: that node is
\* the dragged node afterwards only if it was before, with the drag untouched
C15_NoDragWhileEditing ==
  [][(editingNodeId # NoNode /\ hit' = "body") =>
       \/ ~(isDragging' /\ dragNode'.id = editingNodeId)
       \/ /\ isDragging /\ dragNode.id = editingNodeId
          /\ UNCHANGED <<dragNode, initialClickPos, dragLog>>]_vars

\* the last step was a pointer-down on the body of the node being edited: no
\* drag is in progress (a pointer-down on any other body starts one)
C15_Witness ==
  /\ hit = "body"
  /\ ~isDragging /\ dragNode = NoDrag
  /\ buttonsDown = 1

\* C16 as stated, with "within" read as "at most": the last release was
\* classified as a tap if and only if it came at most 200ms after the touch
\* started and at most 10px from where it started
C16_TapWithinInclusive ==
  touch.release.kind # "none" =>
    LET r == touch.release
    IN (r.kind = "tap") <=>
         (r.t1 - r.t0 <= 200 /\ ~QLess(Q(10 * 10), DistSq(r.p1, r.p0)))

\* C16: the last release was classified as a tap if and only if it came less
\* than 200ms after the touch started and less than 10px from where it started
C16_TapIffShortAndNear ==
  touch.release.kind # "none" =>
    LET r == touch.release
    IN (r.kind = "tap") <=>
         (r.t1 - r.t0 < 200 /\ QLess(DistSq(r.p1, r.p0), Q(10 * 10)))

\* a touch released after 199ms, 5px from where it started, was a tap
C16_Witness ==
  /\ touch.release.kind = "tap"
  /\ touch.release.t1 - touch.release.t0 = 199
  /\ touch.release.p0 = P(0, 0) /\ touch.release.p1 = P(3, 4)

\* C17: whatever wheel, zoom-button, pinch and reset events happened, the zoom
\* is a number that is at least 0.1 and at most 3
C17_ZoomInRange ==
  /\ zoom = Norm(1, 10) \/ QLess(Norm(1, 10), zoom)
  /\ zoom = Q(3) \/ QLess(zoom, Q(3))

\* C18: a wheel event at the screen point S, with pan and zoom being numbers,
\* leaves the canvas point under S where it was:
\* (S - pan') / zoom' = (S - pan) / zoom
C18_AnchorFixed ==
  [][(wheel'.on /\ ~IsNaN(zoom) /\ ~IsNaN(pan.x) /\ ~IsNaN(pan.y)) =>
       LET S == wheel'.at
       IN PDiv(PSub(S, pan'), zoom') = PDiv(PSub(S, pan), zoom)]_vars

\* one wheel event at (30,40) has zoomed in from zoom 1 and pan (0,0)
C18_Witness ==
  /\ wheel.on /\ wheel.at = P(30, 40)
  /\ ops = 1
  /\ zoom = Norm(11, 10)
  /\ pan = P(-3, -4)

\* C19: a wheel event changes the zoom by at most 0.15, and, where no limit
\* cuts the change, by an amount proportional to its scroll delta: an event
\* with delta 0 changes nothing, and the changes that two deltas give from the
\* same zoom are in the ratio of the deltas
C19_WheelProportional ==
  [][(wheel'.on /\ ~IsNaN(zoom)) =>
       LET dy == wheel'.dy
           change == QSub(zoom', zoom)
           Inside(z) == QLess(Norm(1, 10), z) /\ QLess(z, Q(3))
       IN /\ ~QLess(Norm(3, 20), change) /\ ~QLess(change, Norm(-3, 20))
          /\ dy = 0 => change = Q(0)
          /\ \A dy2 \in WheelDeltas :
               (Inside(zoom') /\ Inside(WheelZoom(zoom, dy2))) =>
                 QMul(change, Q(dy2)) = QMul(QSub(WheelZoom(zoom, dy2), zoom), Q(dy))]_vars

C21_PinchReportsClamped ==
  (touch.began.on /\ touch.report.on) =>
    LET r == touch.report
        d0 == Sqrt(DistSq(touch.began.a, touch.began.b))
        d1 == Sqrt(DistSq(r.a, r.b))
        x == QDiv(QMul(touch.began.zoom, d1), d0)
    IN /\ ~IsNaN(r.zoom) /\ ~QLess(r.zoom, ZoomMin) /\ ~QLess(ZoomMax, r.zoom)
       /\ r.zoom = (IF QLess(x, ZoomMin) THEN ZoomMin
                    ELSE IF QLess(ZoomMax, x) THEN ZoomMax ELSE x)
       /\ r.center = [x |-> Norm(r.a.x.n + r.b.x.n, 2), y |-> Norm(r.a.y.n + r.b.y.n, 2)]

\* C22: status aggregation started from any node ends: its steps stay within
\* a bound fixed by the sizes of the node list and the connection list, a
\* started aggregation reaches its result, and the counts of the result are
\* natural numbers that add up to a total no larger than the node list
C22_AggregationTerminates ==
  /\ [](/\ rendered.steps <= 1 + Len(nodes) * (Len(connections) + 1)
        /\ rendered.phase = "done" =>
             LET s == rendered.result
             IN /\ s.success \in Nat /\ s.failed \in Nat /\ s.pending \in Nat
                /\ s.total = s.success + s.failed + s.pending
                /\ s.total <= Len(nodes))
  /\ (rendered.phase = "running" ~> rendered.phase = "done")

\* an aggregation over a cycle through all three nodes and a self-loop has
\* ended, with every node counted once
C22_Witness ==
  /\ rendered.phase = "done"
  /\ connections = <<Conn(1, 2), Conn(2, 3), Conn(3, 1), Conn(2, 2)>>
  /\ rendered.result.total = 3

\* the ids of the nodes that the connections lead to from the nodes of S,
\* taking each connection from its sourceId to its targetId
ChildrenOf(S) ==
  {connections[i].targetId : i \in {j \in DOMAIN connections :
                                      /\ connections[j].sourceId \in S
                                      /\ HasNode(connections[j].targetId)}}

\* the subtree of S: S and everything below it
RECURSIVE Subtree(_)
Subtree(S) == IF ChildrenOf(S) \subseteq S THEN S ELSE Subtree(S \cup ChildrenOf(S))

\* the counts by status of the nodes with the ids of S
CountsOf(S) ==
  LET With(st) == Cardinality({i \in DOMAIN nodes : nodes[i].id \in S /\ nodes[i].status = st})
  IN [success |-> With("success"), failed |-> With("failed"), pending |-> With("pending"),
      total |-> Cardinality({i \in DOMAIN nodes : nodes[i].id \in S})]

\* C23: the status summary computed for a node is the count by status of the
\* leaves of its subtree, where the subtree follows the connections from
\* sourceId to targetId and a leaf is a node without children
C23_SummaryCountsLeaves ==
  rendered.phase = "done" =>
    rendered.result =
      CountsOf({id \in Subtree({rendered.start}) : ChildrenOf({id}) \subseteq {id}})

\* C24: the percentage getMapProgress computes from the stored nodes of a map
\* is success / total * 100 of the root's aggregated summary without the
\* root itself, and 0 when that total is 0
C24_SidebarMatchesRootSummary ==
  (rendered.phase = "done" /\ isRootNode(NodeWithId(rendered.start))) =>
    LET shown == summaryWithoutSelf(rendered.result, NodeWithId(rendered.start).status)
    IN getMapProgress(store[mapId].nodes) =
         IF shown.total = 0 THEN Q(0) ELSE Norm(shown.success * 100, shown.total)

\* the connections whose two ends are nodes of the node list
LiveConnections == {i \in DOMAIN connections :
                      HasNode(connections[i].sourceId) /\ HasNode(connections[i].targetId)}

\* the ids linked to those of S by live connections, in either direction
RECURSIVE LinkedTo(_)
LinkedTo(S) ==
  LET near == {connections[i].targetId : i \in {j \in LiveConnections : connections[j].sourceId \in S}}
              \cup {connections[i].sourceId : i \in {j \in LiveConnections : connections[j].targetId \in S}}
  IN IF near \subseteq S THEN S ELSE LinkedTo(S \cup near)

\* C26: a connection with an end that names no node draws no line, and the
\* aggregation ends with the counts of the nodes that the other connections
\* link to the start node, as if the connection were not there
C26_DanglingSkipped ==
  /\ \A i \in DOMAIN rendered.lines :
       i \notin LiveConnections => rendered.lines[i] = NoLine
  /\ rendered.phase = "done" => rendered.result = CountsOf(LinkedTo({rendered.start}))
  /\ rendered.phase = "running" => (ENABLED SummaryLoop \/ ENABLED SummaryReturn)

\* an aggregation from the root has ended where one connection leads from the
\* root to a missing node and another from a missing node to a child
C26_Witness ==
  /\ rendered.phase = "done" /\ rendered.start = 1
  /\ connections = <<Conn(1, 2), Conn(1, 4), Conn(4, 3)>>
  /\ rendered.result.total = 2
  /\ rendered.lines[2] = NoLine /\ rendered.lines[3] = NoLine

\* C27: a connection whose two end points coincide is not drawn, and no
\* coordinate of a drawn line comes from a division by a distance of zero
C27_ZeroDistanceNotDrawn ==
  \A i \in DOMAIN rendered.lines :
    rendered.lines[i].drawn =>
      /\ rendered.lines[i].from # rendered.lines[i].to
      /\ \A c \in {rendered.lines[i].x1, rendered.lines[i].y1,
                   rendered.lines[i].x2, rendered.lines[i].y2} : ~IsNaN(c.value)

\* C28: no two nodes of the node list have the same id
C28_UniqueIds ==
  \A i, j \in DOMAIN nodes : nodes[i].id = nodes[j].id => i = j

\* the list s without its k-th element
Without(s, k) == [i \in 1..(Len(s) - 1) |-> IF i < k THEN s[i] ELSE s[i + 1]]

\* every connection of cs has both its ends among the nodes ns
RefsExist(ns, cs) ==
  \A c \in DOMAIN cs :
    /\ \E i \in DOMAIN ns : ns[i].id = cs[c].sourceId
    /\ \E i \in DOMAIN ns : ns[i].id = cs[c].targetId

\* C25: a step of deleteNode(n) removes one node, n, and the connections that
\* have n as source or target, leaves every other node and connection as it
\* was, and keeps "every connection references existing nodes" true
C25_DeleteRemovesOnlyNode ==
  [][\A id \in NodeIds :
       deleteNode(id) =>
         \E k \in DOMAIN nodes :
           /\ nodes[k].id = id
           /\ nodes' = Without(nodes, k)
           /\ connections' =
                SelectSeq(connections,
                          LAMBDA c : c.sourceId # id /\ c.targetId # id)
           /\ (RefsExist(nodes, connections) => RefsExist(nodes', connections'))]_vars

\* C29: after a load, every stored record that has no status field and has a
\* todos list is a node with status success if the list is non-empty and all
\* its items are completed, and a node with status pending if not
C29_LegacyTodosStatus ==
  (fresh /\ loadSaw.nodes = "value") =>
    \A i \in DOMAIN loadSaw.raw :
      LET raw == loadSaw.raw[i]
          allDone == Len(raw.todos) > 0 /\ \A k \in DOMAIN raw.todos : raw.todos[k]
      IN (raw.status = "none" /\ raw.hasTodos) =>
           /\ allDone => nodes[i].status = "success"
           /\ ~allDone => nodes[i].status = "pending"

\* a record without status was loaded with two completed todos and is a node
\* with status success, next to a second node that is pending
C29_Witness ==
  /\ fresh /\ loadSaw.nodes = "value" /\ Len(nodes) = 2
  /\ loadSaw.raw[1].status = "none" /\ loadSaw.raw[1].hasTodos
  /\ loadSaw.raw[1].todos = <<TRUE, TRUE>>
  /\ nodes[1].status = "success"
  /\ nodes[2].status = "pending"

\* C30: after a load, every stored record whose status is present and is not
\* pending, success or failed is a node with status pending
C30_UnknownStatusPending ==
  (fresh /\ loadSaw.nodes = "value") =>
    \A i \in DOMAIN loadSaw.raw :
      (loadSaw.raw[i].status \notin (Statuses \cup {"none"})) =>
        nodes[i].status = "pending"

\* C39: the summary computed for a node has total = success + failed +
\* pending and is the count by status of the nodes linked to it by
\* connections in either direction, each counted once, itself included
C39_CountsLinkedOnce ==
  rendered.phase = "done" =>
    /\ rendered.result.total =
         rendered.result.success + rendered.result.failed + rendered.result.pending
    /\ rendered.result = CountsOf(LinkedTo({rendered.start}))

\* C40: the width computed for a node is between 200 and 400 for a root and
\* between 184 and 320 for any other node, and the height is at least the
\* minimum of the node's kind, 160 for a root and 150 for any other node
C40_SizeWithinRange ==
  rendered.size.asked =>
    LET sz == rendered.size
    IN /\ sz.width >= (IF sz.root THEN 200 ELSE 184)
       /\ sz.width <= (IF sz.root THEN 400 ELSE 320)
       /\ sz.height >= (IF sz.root THEN 160 ELSE 150)

\* C33: during a node drag the position is committed at most once per frame:
\* a pointer-move commits no delta in a millisecond in which a pointer-move of
\* the same drag has already committed one
C33_OneCommitPerFrame ==
  [][hit' = "move" => dragLog.at # now]_vars

\* C34: the click delivered at the end of a node drag during which the pointer
\* moved opens no dialog and adds no connection
C34_DragClickIgnored ==
  [][(hit' = "click" /\ dragLog.sum # P(0, 0)) =>
       /\ showTodoDialog' = showTodoDialog /\ selectedNode' = selectedNode
       /\ connections' = connections]_vars

C32_ResetLeavesRootOnly ==
  [][resetBrainMap =>
       /\ Len(nodes') = 1 /\ nodes'[1].isRoot
       /\ nodes'[1].title = (IF Trim(mapName[mapId]) # <<>> THEN Trim(mapName[mapId])
                             ELSE MyTasks)
       /\ connections' = <<>>
       /\ connectingMode' = NoNode /\ ~showTodoDialog' /\ selectedNode' = NoNode
       /\ zoom' = Q(1) /\ pan' = P(0, 0)
       /\ store'[mapId] = [nodes |-> Val(Stringify(nodes')), conns |-> Val(<<>>)]]_vars

\* a map loaded with a root and a child has just been reset: one root is
\* left, the view is at its defaults and the entries hold the root alone
C32_Witness ==
  /\ wrote = {mapId} /\ pending = StateEffects
  /\ Len(loadSaw.raw) = 2
  /\ Len(nodes) = 1 /\ nodes[1].isRoot /\ connections = <<>>
  /\ zoom = Q(1) /\ pan = P(0, 0)
  /\ store[mapId] = [nodes |-> Val(Stringify(nodes)), conns |-> Val(<<>>)]

\* marks of map A: the child its stored entry holds, and the connection from
\* its root to that child; nothing done in map B produces either
HoldsChildOfA(ns) == \E i \in DOMAIN ns : ns[i].title = GoodNodes[2].title
HoldsConnectionOfA(cs) == \E i \in DOMAIN cs : cs[i] = Conn(GoodNodes[1].id, GoodNodes[2].id)

\* C35: the entries of map B never hold a node or a connection of map A, and
\* once map B is hydrated its in-memory nodes and connections hold none
C35_NoCarryOver ==
  /\ store["B"].nodes.kind = "value" => ~HoldsChildOfA(store["B"].nodes.val)
  /\ store["B"].conns.kind = "value" => ~HoldsConnectionOfA(store["B"].conns.val)
  /\ (mapId = "B" /\ hydratedKey = "B") =>
       ~HoldsChildOfA(nodes) /\ ~HoldsConnectionOfA(connections)

\* --------------------------------------------------------------------- App
\* the ids of a map list
MapIdsOf(ms) == {ms[i] : i \in DOMAIN ms}

\* what MAPS_META_KEY holds when the application starts: nothing, text that
\* does not parse, or the list an earlier session saved
StoredLists == {Absent, Corrupt, Val(<<>>), Val(<<"A">>), Val(<<"A", "B">>), Val(<<"B", "A">>)}

\* the effects of App after its first render, in declaration order, and the
\* render their state updates lead to
AppMountEffects == <<"load", "persist", "commit">>

\* no effect of App or of the mounted BrainMap is waiting: React runs them
\* before it handles the next event
AppIdle == app.pending = <<>> /\ pending = <<>>

\* the history of the last step, left for a step of App to set
AppStepMarks == wrote' = {} /\ wheel' = NoWheel /\ rendered' = NoRender /\ requests' = <<>> /\ hit' = NoHit

\* <BrainMap key={selectedMapId}>: when the selected id changes the mounted
\* BrainMap is unmounted, and one for the new id is mounted unless it is ''
SelectTo(m) ==
  IF m = mapId
  THEN UNCHANGED <<mapId, nodes, connections, hydrated, pending, fresh, hydratedKey,
                   passVars, dialogVars, flagVars, viewVars, touch, dragLog, panLog>>
  ELSE /\ mapId' = m
       /\ FreshInstance
       /\ pending' = (IF m = NoMap THEN <<>> ELSE MountEffects)
       /\ fresh' = FALSE /\ hydratedKey' = NoMap
       /\ loadSaw' = NoLoad /\ queue' = NoQueue

\* a fault: the save effect of the map list without its isInitialized guard
IsInitializedUnguarded == TRUE

\* if (!isInitialized) return
IsInitializedGuard == app.isInitialized

\* the application has just been rendered for the first time: no map is
\* selected, no BrainMap is mounted, and the maps a stored list names have
\* their entries
InitApp ==
  /\ controller \in {"inline", "hook"}
  /\ \E meta \in StoredLists, nm \in MapNames :
       /\ app = [NoApp EXCEPT !.meta = meta, !.pending = AppMountEffects,
                              !.used = MapIdsOf(meta.val)]
       /\ store = [m \in MapIds |->
                    IF m \notin MapIdsOf(meta.val) THEN [nodes |-> Absent, conns |-> Absent]
                    ELSE IF m = "A" THEN [nodes |-> Val(GoodNodes), conns |-> Val(<<Conn(1, 2)>>)]
                    ELSE [nodes |-> Val(OtherNodes), conns |-> Absent]]
       /\ mapName = [m \in MapIds |-> IF m = "A" THEN nm ELSE <<"b">>]
  /\ mapId = NoMap
  /\ nodes = <<>> /\ connections = <<>> /\ hydrated = FALSE
  /\ pending = <<>>
  /\ queue = NoQueue /\ loadSaw = NoLoad /\ fresh = FALSE
  /\ now = 3 /\ ops = 0 /\ wrote = {} /\ wheel = NoWheel /\ rendered = NoRender
  /\ requests = <<>> /\ hit = NoHit /\ hydratedKey = NoMap
  /\ selectedNode = NoNode /\ showTodoDialog = FALSE /\ connectingMode = NoNode
  /\ GestureIdle

\* the load effect of App: a stored list that parses is passed to setMaps and
\* its first map to setSelectedMapId; setIsInitialized(true) in every case
loadMaps ==
  /\ app.pending # <<>> /\ Head(app.pending) = "load"
  /\ app' = [app EXCEPT !.pending = Tail(@),
                        !.setMaps = (app.meta.kind = "value"),
                        !.parsed = app.meta.val,
                        !.did = "load", !.before = app.meta]
  /\ AppStepMarks
  /\ UNCHANGED <<syncVars, dialogVars, gestureVars, touch, dragLog, panLog>>

\* the save effect of App: JSON.stringify(maps) is stored once isInitialized
\* is true
persistMaps ==
  /\ app.pending # <<>> /\ Head(app.pending) = "persist"
  /\ app' = [app EXCEPT !.pending = Tail(@),
                        !.meta = IF IsInitializedGuard THEN Val(app.maps) ELSE @,
                        !.did = IF IsInitializedGuard THEN "persist" ELSE "skip",
                        !.before = app.meta]
  /\ AppStepMarks
  /\ UNCHANGED <<syncVars, dialogVars, gestureVars, touch, dragLog, panLog>>

\* the render after the effects of the first one: the updates of the load
\* effect are applied, the save effect runs again because isInitialized
\* changed, and a BrainMap is mounted for the selected map
commitMaps ==
  /\ app.pending # <<>> /\ Head(app.pending) = "commit"
  /\ LET loaded == IF app.setMaps THEN app.parsed ELSE app.maps
     IN /\ app' = [app EXCEPT !.pending = <<"persist">>, !.maps = loaded,
                              !.isInitialized = TRUE, !.setMaps = FALSE,
                              !.parsed = <<>>, !.did = "commit", !.before = app.meta]
        /\ SelectTo(IF app.setMaps /\ Len(app.parsed) > 0 THEN app.parsed[1] ELSE mapId)
  /\ AppStepMarks
  /\ UNCHANGED <<controller, store, mapName, now, ops, pointerVars>>

\* createMap(name): the id is Date.now() as a string, which no earlier map has
createMap(id, name) ==
  /\ AppIdle /\ ops < MaxEvents
  /\ id \in MapIds \ app.used
  /\ app' = [app EXCEPT !.maps = Append(@, id), !.used = @ \cup {id},
                        !.pending = <<"persist">>, !.did = "create", !.before = app.meta]
  /\ mapName' = [mapName EXCEPT ![id] = name]
  /\ SelectTo(id)
  /\ ops' = ops + 1
  /\ AppStepMarks
  /\ UNCHANGED <<controller, store, now, pointerVars>>

\* selectMap(id), called by the sidebar for a map of the list
selectMap(id) ==
  /\ AppIdle /\ ops < MaxEvents
  /\ id \in MapIdsOf(app.maps)
  /\ app' = [app EXCEPT !.did = "select", !.before = app.meta]
  /\ SelectTo(id)
  /\ ops' = ops + 1
  /\ AppStepMarks
  /\ UNCHANGED <<controller, store, mapName, now, pointerVars>>

\* a fault: deleteMap that removes the nodes entry alone
RemovedEntriesNodesOnly(entry) == [entry EXCEPT !.nodes = Absent]

\* localStorage.removeItem of the nodes and of the connections entry
RemovedEntries(entry) == [nodes |-> Absent, conns |-> Absent]

\* a fault: the deleted map stays selected
AfterDeleteKeep(selected, id, remaining) == selected

\* setSelectedMapId(prevSelected => ...): the first remaining map, or '', when
\* the deleted map was the selected one
AfterDelete(selected, id, remaining) ==
  IF selected = id
  THEN (IF Len(remaining) > 0 THEN remaining[1] ELSE NoMap)
  ELSE selected

\* deleteMap(id) once confirm() returned true
deleteMap(id) ==
  /\ AppIdle /\ ops < MaxEvents
  /\ id \in MapIdsOf(app.maps)
  /\ LET remaining == SelectSeq(app.maps, LAMBDA m : m # id)
     IN /\ app' = [app EXCEPT !.maps = remaining, !.deleted = @ \cup {id},
                              !.pending = <<"persist">>, !.did = "delete",
                              !.before = app.meta]
        /\ SelectTo(AfterDelete(mapId, id, remaining))
  /\ store' = [store EXCEPT ![id] = RemovedEntries(@)]
  /\ ops' = ops + 1
  /\ AppStepMarks
  /\ UNCHANGED <<controller, mapName, now, pointerVars>>

\* the lists of maps an imported file can give: each map gets a new id, and
\* its entries are stored under the new keys when the file holds them
ImportLists == {ids \in UNION {[1..n -> MapIds \ app.used] : n \in 0..2} :
                  \A i, j \in DOMAIN ids : i # j => ids[i] # ids[j]}

\* importData(jsonData) for a file that parses, once confirm() returned true
importData(ids, withEntries) ==
  /\ AppIdle /\ ops < MaxEvents
  /\ ids \in ImportLists
  /\ app' = [app EXCEPT !.maps = @ \o ids, !.used = @ \cup MapIdsOf(ids),
                        !.pending = <<"persist">>, !.did = "import", !.before = app.meta]
  /\ store' = [m \in MapIds |->
                IF m \in MapIdsOf(ids) /\ withEntries
                THEN [nodes |-> Val(OtherNodes), conns |-> Val(<<>>)]
                ELSE store[m]]
  /\ SelectTo(IF Len(ids) > 0 THEN ids[1] ELSE mapId)
  /\ ops' = ops + 1
  /\ AppStepMarks
  /\ UNCHANGED <<controller, mapName, now, pointerVars>>

NextApp ==
  \/ loadMaps
  \/ persistMaps
  \/ commitMaps
  \/ \E id \in MapIds, name \in {<<"m">>, <<" ">>} : createMap(id, name)
  \/ \E id \in MapIds : selectMap(id)
  \/ \E id \in MapIds : deleteMap(id)
  \/ \E ids \in ImportLists, e \in BOOLEAN : importData(ids, e)
  \/ ResetEffect
  \/ LoadEffect
  \/ SaveStep
  \/ Commit
  \/ \E id \in NodeIds : addNode(id)

SpecApp == InitApp /\ [][NextApp]_vars

\* C38: the map list is stored only when isInitialized is true, that is after
\* the updates of the load effect were applied; what is stored is the list in
\* memory, and a stored list that names maps is replaced by the empty list
\* only after a map was deleted
C38_NoWriteBeforeLoad ==
  [][app.did' = "persist" =>
       /\ app.isInitialized
       /\ app.meta' = Val(app.maps)
       /\ (app.meta.kind = "value" /\ app.meta.val # <<>> /\ app.maps = <<>>)
            => app.deleted # {}]_vars

\* at startup the save effect has just run for the first time with
\* isInitialized true: the stored list of two maps is as it was
C38_Witness ==
  /\ app.did = "persist" /\ ops = 0 /\ app.isInitialized
  /\ app.before = Val(<<"A", "B">>) /\ app.meta = Val(<<"A", "B">>)

\* C37: the selected map id is '' or the id of a map of the list, and the
\* deletion of the selected map selects the first remaining map, or '' when
\* none remains
C37_SelectedInList ==
  /\ [](mapId = NoMap \/ mapId \in MapIdsOf(app.maps))
  /\ [][\A id \in MapIds :
          (deleteMap(id) /\ mapId = id) =>
             mapId' = (IF app.maps' # <<>> THEN app.maps'[1] ELSE NoMap)]_vars

\* the selected map A of the list A, B has just been deleted: B is selected
\* and a BrainMap for it was mounted
C37_Witness ==
  /\ app.did = "delete" /\ app.deleted = {"A"}
  /\ app.maps = <<"B">> /\ mapId = "B"
  /\ pending = MountEffects /\ hydratedKey = NoMap

====
